---------------------------- MODULE Spec2Model ----------------------------
(***************************************************************************)
(* The account router of skinmate: registration, password login, sign      *)
(* out, the session check of protected routes and the OTP challenge flows, *)
(* over the three collections User, Client and TOTP.                       *)
(*                                                                         *)
(* The repository holds three generations of the router:                   *)
(*   "v0"      src/src/routes/User.js  (header and session checks inline,  *)
(*             Client keeps a back-reference to its User, sign out         *)
(*             removes the Client row, no OTP flows);                      *)
(*   "early"   src/unnamed/part_000    (the checks moved to middlewares,   *)
(*             OTP flows added, same data model as v0);                    *)
(*   "evolved" src/unnamed/part_001    (User keeps the list of its         *)
(*             Clients, Clients are soft-deleted).                         *)
(* A deployment runs one of them: the variable design is fixed by Init.    *)
(*                                                                         *)
(* Every request is a slot of req.  An action is one stretch of a handler  *)
(* that ends with an await on the persistence layer, so two requests       *)
(* interleave where the JavaScript handlers can.  The session check of a   *)
(* protected route and the reads of the handler that follow it, up to the  *)
(* handler's first write, are one step; awaits that touch no collection    *)
(* (validate, compare, the delivery of a code) belong to the step of the   *)
(* call before them.                                                       *)
(***************************************************************************)
EXTENDS Integers, Sequences, FiniteSets, TLC

\* Bounds of the model.
MaxUsers == 2
MaxClients == 3
MaxTotps == 1
MaxEmail == 2
MaxPhone == 2
MaxPw == 1
MaxSecret == 1
MaxFaults == 1
MaxValue == 1
NSlots == 2

Designs == {"v0", "early", "evolved"}
Slots == 1..NSlots
UserIds == 1..MaxUsers
ClientIds == 1..MaxClients
TotpIds == 1..MaxTotps
\* 0 stands for a value the request does not carry or that fails validation.
Emails == 0..MaxEmail
Phones == 0..MaxPhone
Passwords == 0..MaxPw
Secrets == 1..MaxSecret
\* What a key of an update can carry; 0 is a value the schema refuses.
Values == 0..MaxValue

VARIABLES
    design,    \* which generation of the router is deployed
    users,     \* the User collection, by _id
    clients,   \* the Client collection, by _id
    totps,     \* the TOTP collection, by _id
    nUsers,    \* number of User ids handed out (new User(...))
    nClients,  \* number of Client ids handed out
    nTotps,    \* number of TOTP ids handed out
    removing,  \* TOTP ids with a totp.remove() in flight that nobody awaits
    faults,    \* number of persistence or delivery calls that have failed
    req        \* the requests in flight: position and locals of each handler

vars == <<design, users, clients, totps, nUsers, nClients, nTotps, removing,
          faults, req>>

store == <<users, clients, totps>>
ids == <<nUsers, nClients, nTotps>>

----------------------------------------------------------------------------
\* Documents.

NoUser == [saved |-> FALSE, email |-> 0, phone |-> 0, password |-> 0,
           firstName |-> 0, verifiedPhone |-> FALSE, verifiedEmail |-> FALSE,
           isDeleted |-> FALSE, clients |-> <<>>]

NoClient == [present |-> FALSE, token |-> 0, user |-> 0, isDeleted |-> FALSE]

NoTotp == [present |-> FALSE, secret |-> 0, user |-> 0]

\* A request slot that handles nothing.  The fields up to upd are the inputs
\* and the locals of the handler.  notes and acted are history: notes is what
\* was true of the thing the request names when the request arrived, acted
\* whether the request changed what it was about.
Idle == [op |-> "idle", pc |-> "idle", email |-> 0, phone |-> 0, pw |-> 0,
         dev |-> 0, tok |-> 0, rid |-> 0, uid |-> 0, cid |-> 0, upd |-> {},
         notes |-> {}, acted |-> FALSE, resp |-> "none", fields |-> {}]

Range(s) == {s[i] : i \in DOMAIN s}

\* The token a new Client gets: fresh, so no two Clients share one.
NewToken(c) == 10 + c

\* The Clients whose token a caller can know: the request that created the
\* Client has answered.
Issued(c) ==
    /\ c \in 1..nClients
    /\ \A s \in Slots : req[s].cid = c => req[s].pc = "done"

\* What a caller can put in the access-token header next to device-id dev:
\* the token that a response has carried for dev, or a value that is not the
\* token of dev (the filter { _id, token } tells no two such values apart).
Tokens(dev) == {0} \cup (IF Issued(dev) THEN {NewToken(dev)} ELSE {})
AnyToken == {0} \cup {NewToken(c) : c \in ClientIds}

\* What the callers can put in the device-id header and in requestId: the id
\* of some document that was created, or a value that names none.
DeviceIds == 0..nClients
RequestIds == 0..nTotps

\* The code derived from a secret, and every code a caller can submit.
generateOTP(secret) == (3 * secret + 1) % 10
verifyOTP(secret, code) == code = generateOTP(secret)
Codes == {0} \cup {generateOTP(s) : s \in Secrets}

\* user.validate(): the schema's required and shape rules.
Validate(email, phone, pw) == email # 0 /\ phone # 0 /\ pw # 0

\* Variant: a User collection without unique indexes.
UniqueOkNone(email, phone) == TRUE

\* The unique indexes of the User collection on email and on phone.
UniqueOk(email, phone) ==
    \A u \in UserIds :
        users[u].saved => users[u].email # email /\ users[u].phone # phone

\* Client document as JSON: the fields of the Client schema.
ClientJSON ==
    IF design = "evolved"
    THEN {"_id", "token", "userAgent", "createdAt", "isDeleted"}
    ELSE {"_id", "token", "user", "userAgent", "createdAt"}

\* User document as JSON: the fields of the User schema.
UserJSON ==
    {"_id", "email", "phone", "password", "firstName", "avatar",
     "verifiedPhone", "verifiedEmail", "isDeleted", "createdAt"}
    \cup (IF design = "evolved" THEN {"clients"} ELSE {})

\* TOTP document as JSON.
TotpJSON == {"_id", "secret", "user", "createdAt"}

\* The accounts a session belongs to.  v0 and early keep the back-reference
\* Client.user, the evolved design the list User.clients.
OwnersOf(c) ==
    IF design = "evolved"
    THEN {u \in UserIds : users[u].saved /\ c \in Range(users[u].clients)}
    ELSE {u \in UserIds : clients[c].present /\ clients[c].user = u}

\* A session that authenticates a request: stored and not soft-deleted.
Live(c) == c \in ClientIds /\ clients[c].present /\ ~clients[c].isDeleted

----------------------------------------------------------------------------
\* Steps shared by the handlers.

\* response.send / response.json: the handler is over and its locals are
\* gone.  The answer stays in the slot until the connection closes (Return).
Closed(q, resp, fields) ==
    [Idle EXCEPT !.op = q.op, !.pc = "done", !.resp = resp, !.fields = fields,
                 !.notes = q.notes, !.acted = q.acted]

\* The handler of slot r answers.
Respond(r, resp, fields) ==
    req' = [req EXCEPT ![r] = Closed(req[r], resp, fields)]

\* A request q that arrives in slot r is answered by its first step.
Answer(r, q, resp) ==
    req' = [req EXCEPT ![r] = Closed(q, resp, {})]

\* A call to the persistence layer or to a delivery service succeeds (ok) or
\* fails; the model lets at most MaxFaults calls fail in one behaviour.
Fault(ok) ==
    /\ ok \/ faults < MaxFaults
    /\ faults' = IF ok THEN faults ELSE faults + 1

\* A new request takes the lowest idle slot.
Free(r) ==
    /\ req[r].pc = "idle"
    /\ \A s \in Slots : s < r => req[s].pc # "idle"

\* Requests that may still allocate a Client.
MayCreateClient(s) ==
    /\ req[s].op \in {"register", "login", "otpsignin"}
    /\ req[s].pc \notin {"done", "reuse"}
    /\ req[s].cid = 0
RoomForUser == nUsers < MaxUsers
RoomForClient ==
    nClients + Cardinality({s \in Slots : MayCreateClient(s)}) < MaxClients
RoomForTotp ==
    nTotps + Cardinality({s \in Slots : req[s].pc = "totp"}) < MaxTotps

\* Client.create(...): a new row with a fresh token.
NewClient(user) ==
    [present |-> TRUE, token |-> NewToken(nClients + 1), user |-> user,
     isDeleted |-> FALSE]

\* The Client a request names with its device-id and access-token headers:
\* Client.findOne({ _id, token }), in the evolved design among the Clients
\* that are not soft-deleted.
findByToken(dev, tok) ==
    /\ dev \in ClientIds
    /\ clients[dev].present
    /\ clients[dev].token = tok
    /\ design = "evolved" => ~clients[dev].isDeleted

\* Variant: a session check that asks for no verification flag.
requireVerificationNone(dev, tok, phone, email) ==
    IF ~findByToken(dev, tok) THEN [resp |-> "UNAUTHORIZED", uid |-> 0]
    ELSE LET own == {u \in OwnersOf(dev) : users[u].saved /\ ~users[u].isDeleted}
         IN  IF own = {} THEN [resp |-> "NULL_USER", uid |-> 0]
             ELSE [resp |-> "next", uid |-> CHOOSE x \in own : TRUE]

\* The session check of a protected route: the Client, then its User among
\* the accounts that are not deleted, then the verification flags the route
\* asks for.  The result is the response of a rejected request, or "next".
requireVerification(dev, tok, phone, email) ==
    IF ~findByToken(dev, tok) THEN [resp |-> "UNAUTHORIZED", uid |-> 0]
    ELSE LET own == {u \in OwnersOf(dev) : users[u].saved /\ ~users[u].isDeleted}
         IN  IF own = {} THEN [resp |-> "NULL_USER", uid |-> 0]
             ELSE LET u == CHOOSE x \in own : TRUE
                  IN  IF \/ phone /\ ~users[u].verifiedPhone
                         \/ email /\ ~users[u].verifiedEmail
                      THEN [resp |-> "NOT_VERIFIED", uid |-> 0]
                      ELSE [resp |-> "next", uid |-> u]

\* What the answers of finished requests, still in their slots, tell about
\* session dev: a sign out has removed or flagged it.
SaidOfSession(dev) ==
    IF \E s \in Slots : /\ req[s].pc = "done" /\ req[s].op = "signout"
                        /\ req[s].resp = "SIGNED_OUT" /\ req[s].acted
                        /\ req[s].dev = dev
    THEN {"revoked"} ELSE {}

\* The same about challenge rid and the code a request submits for it: a
\* confirm has succeeded with rid ("won"), a confirm with rid was answered
\* INVALID_OTP ("tried"), the code is not the one derived from the secret of
\* rid ("wrong").
ConfirmOps == {"phone", "email", "otpsignin"}
SaidOfChallenge(rid, code) ==
    (IF \E s \in Slots : /\ req[s].pc = "done" /\ req[s].op \in ConfirmOps
                         /\ req[s].resp \in {"VERIFIED", "200"}
                         /\ req[s].rid = rid
     THEN {"won"} ELSE {})
    \cup
    (IF \E s \in Slots : /\ req[s].pc = "done" /\ req[s].op \in ConfirmOps
                         /\ req[s].resp = "INVALID_OTP"
                         /\ req[s].rid = rid
     THEN {"tried"} ELSE {})
    \cup
    (IF /\ rid \in TotpIds /\ totps[rid].present
        /\ code # generateOTP(totps[rid].secret)
     THEN {"wrong"} ELSE {})

----------------------------------------------------------------------------
\* POST /accounts (register).

\* The accounts that are not deleted and hold the email.
OwnersOfEmail(email) ==
    {u \in UserIds : users[u].saved /\ ~users[u].isDeleted
                     /\ users[u].email = email}

\* What the store tells about an email that no account that is not deleted
\* holds: an account that was soft-deleted still holds it ("ghost").
SaidOfEmail(email) ==
    IF /\ OwnersOfEmail(email) = {}
       /\ \E u \in UserIds : /\ users[u].saved /\ users[u].isDeleted
                              /\ users[u].email = email
    THEN {"ghost"} ELSE {}

\* Variant: a registration without the existence check.
EmailExistsNever(email) == FALSE

\* User.exists({ email: request.body.email })
EmailExists(email) ==
    \E u \in UserIds : users[u].saved /\ users[u].email = email

\* User.exists({ email }), new User(...), user.validate()
Register(r, email, phone, pw, ok) ==
    /\ Free(r)
    /\ RoomForUser /\ RoomForClient
    /\ Fault(ok)
    /\ LET q == [Idle EXCEPT !.op = "register",
                     !.notes = (IF OwnersOfEmail(email) # {}
                                THEN {"owned"} ELSE {})
                               \cup SaidOfEmail(email)]
       IN  IF ~ok
           THEN Answer(r, q, "DB_ERROR") /\ UNCHANGED nUsers
           ELSE IF EmailExists(email)
           THEN Answer(r, q, "USER_EXISTS") /\ UNCHANGED nUsers
           ELSE IF ~Validate(email, phone, pw)
           THEN Answer(r, q, "VALIDATION_ERROR") /\ UNCHANGED nUsers
           ELSE /\ nUsers' = nUsers + 1
                /\ req' = [req EXCEPT ![r] =
                       [q EXCEPT !.email = email, !.phone = phone, !.pw = pw,
                                 !.uid = nUsers + 1,
                                 !.pc = IF design = "evolved"
                                        THEN "client" ELSE "save"]]
    /\ UNCHANGED <<design, store, nClients, nTotps, removing>>

\* Variant: a registration that forgets user.clients.push(client.id).
NewUserNoList(r, list) ==
    [saved |-> TRUE, email |-> req[r].email, phone |-> req[r].phone,
     password |-> req[r].pw, firstName |-> 0,
     verifiedPhone |-> FALSE, verifiedEmail |-> FALSE,
     isDeleted |-> FALSE, clients |-> <<>>]

\* The document user.save() inserts.
NewUser(r, list) ==
    [saved |-> TRUE, email |-> req[r].email, phone |-> req[r].phone,
     password |-> req[r].pw, firstName |-> 0,
     verifiedPhone |-> FALSE, verifiedEmail |-> FALSE,
     isDeleted |-> FALSE, clients |-> list]

\* v0, early: await user.save(), before the client is created.
RegisterSaveEarly(r, ok) ==
    /\ design # "evolved"
    /\ req[r].op = "register" /\ req[r].pc = "save"
    /\ Fault(ok)
    /\ IF ok /\ UniqueOk(req[r].email, req[r].phone)
       THEN /\ users' = [users EXCEPT ![req[r].uid] = NewUser(r, <<>>)]
            /\ req' = [req EXCEPT ![r].pc = "client"]
       ELSE /\ Respond(r, "SAVE_USER_FAILED", {})
            /\ UNCHANGED users
    /\ UNCHANGED <<design, clients, totps, ids, removing>>

\* v0, early: Client.create({ user: user.id, userAgent }), response 201 with
\* the client as it is.
RegisterClientEarly(r, ok) ==
    /\ design # "evolved"
    /\ req[r].op = "register" /\ req[r].pc = "client"
    /\ Fault(ok)
    /\ IF ok
       THEN /\ clients' = [clients EXCEPT ![nClients + 1] = NewClient(req[r].uid)]
            /\ nClients' = nClients + 1
            /\ req' = [req EXCEPT ![r] =
                   [Closed(req[r], "201", ClientJSON)
                       EXCEPT !.uid = req[r].uid, !.cid = nClients + 1]]
       ELSE /\ Respond(r, "SAVE_CLIENT_FAILED", {})
            /\ UNCHANGED <<clients, nClients>>
    /\ UNCHANGED <<design, users, totps, nUsers, nTotps, removing>>

\* evolved: Client.create({ user: user.id, userAgent }) before the user is
\* saved.
RegisterClient(r, ok) ==
    /\ design = "evolved"
    /\ req[r].op = "register" /\ req[r].pc = "client"
    /\ Fault(ok)
    /\ IF ok
       THEN /\ clients' = [clients EXCEPT ![nClients + 1] = NewClient(req[r].uid)]
            /\ nClients' = nClients + 1
            /\ req' = [req EXCEPT ![r].cid = nClients + 1, ![r].pc = "save"]
       ELSE /\ Respond(r, "SAVE_CLIENT_FAILED", {})
            /\ UNCHANGED <<clients, nClients>>
    /\ UNCHANGED <<design, users, totps, nUsers, nTotps, removing>>

\* evolved: user.clients.push(client.id); await user.save(); the response is
\* the client without its isDeleted field.
RegisterSave(r, ok) ==
    /\ design = "evolved"
    /\ req[r].op = "register" /\ req[r].pc = "save"
    /\ Fault(ok)
    /\ IF ok /\ UniqueOk(req[r].email, req[r].phone)
       THEN /\ users' = [users EXCEPT ![req[r].uid] = NewUser(r, <<req[r].cid>>)]
            /\ req' = [req EXCEPT ![r] =
                   [Closed(req[r], "201", ClientJSON \ {"isDeleted"})
                       EXCEPT !.uid = req[r].uid, !.cid = req[r].cid]]
       ELSE /\ Respond(r, "SAVE_USER_FAILED", {})
            /\ UNCHANGED users
    /\ UNCHANGED <<design, clients, totps, ids, removing>>

----------------------------------------------------------------------------
\* POST /accounts/auth (password login).  The device-id header is optional
\* after v0: dev = 0 names no Client.

\* Variant: a lookup that does not leave out the deleted accounts.
LoginMatchesAll(email, phone) ==
    {u \in UserIds :
        /\ users[u].saved
        /\ \/ users[u].email = email
           \/ design # "v0" /\ users[u].phone = phone}

\* The accounts User.findOne can answer with: not deleted, with the email or
\* (not in v0) the phone of the request.
LoginMatches(email, phone) ==
    {u \in UserIds :
        /\ users[u].saved /\ ~users[u].isDeleted
        /\ \/ users[u].email = email
           \/ design # "v0" /\ users[u].phone = phone}

\* What the store tells about the email and the phone of a login: they name
\* an account, and every account they name was soft-deleted ("deleted").
SaidOfIdentity(email, phone) ==
    LET named == {u \in UserIds : /\ users[u].saved
                                  /\ \/ users[u].email = email
                                     \/ users[u].phone = phone}
    IN  IF named # {} /\ \A u \in named : users[u].isDeleted
        THEN {"deleted"} ELSE {}

\* Variant: a credential check that accepts every password.
compareAny(pw, hash) == TRUE

\* compare(request.body.password, user.password) of bcryptjs, on the
\* password as the account stores it.
compare(pw, hash) == pw = hash

\* What the store tells about the credentials of a login: no account that
\* is not deleted has the email or the phone ("nobody"), or those that have
\* one of them all have another password ("badpw").
SaidOfCredentials(email, phone, pw) ==
    LET named == {u \in UserIds :
                     /\ users[u].saved /\ ~users[u].isDeleted
                     /\ \/ users[u].email = email
                        \/ design # "v0" /\ users[u].phone = phone}
    IN  IF named = {} THEN {"nobody"}
        ELSE IF \A u \in named : users[u].password # pw THEN {"badpw"}
        ELSE {}

\* User.findOne({ $or: [{ email }, { phone }], isDeleted: { $ne: true } }),
\* then compare(request.body.password, user.password); io tells which of the
\* two calls fails, if any.
Login(r, email, phone, pw, dev, io) ==
    /\ Free(r)
    /\ RoomForClient
    /\ dev \in DeviceIds
    /\ io = "compare" => LoginMatches(email, phone) # {}
    /\ Fault(io = "ok")
    /\ LET q == [Idle EXCEPT !.op = "login", !.dev = dev,
                             !.notes = SaidOfIdentity(email, phone)
                                       \cup SaidOfCredentials(email, phone, pw)]
       IN  IF io = "find" THEN Answer(r, q, "FIND_USER_FAILED")
           ELSE IF LoginMatches(email, phone) = {} THEN Answer(r, q, "NULL_USER")
           ELSE \E u \in LoginMatches(email, phone) :
                   IF io = "compare"
                   THEN Answer(r, q, "PASSWORD_COMPARE_FAILED")
                   ELSE IF ~compare(pw, users[u].password)
                   THEN Answer(r, q, "PASSWORD_INCORRECT")
                   ELSE req' = [req EXCEPT ![r] =
                            [q EXCEPT !.uid = u,
                                      !.pc = IF design = "evolved"
                                             THEN "revoke" ELSE "findc"]]
    /\ UNCHANGED <<design, store, ids, removing>>

\* The Client row Client.findOne({ _id: device-id }) answers with.
LoginFound(r, ok) ==
    ok /\ req[r].dev \in ClientIds /\ clients[req[r].dev].present

\* v0, early: Client.findOne({ _id: device-id }); a failure is skipped, the
\* login then goes on as if no Client had been found.  The note "failed"
\* tells that a call of the request has failed.
LoginFindClient(r, ok) ==
    /\ design # "evolved"
    /\ req[r].op = "login" /\ req[r].pc = "findc"
    /\ Fault(ok)
    /\ req' = [req EXCEPT
           ![r].pc = IF LoginFound(r, ok) THEN "reuse" ELSE "create",
           ![r].notes = IF ok THEN @ ELSE @ \cup {"failed"}]
    /\ UNCHANGED <<design, store, ids, removing>>

\* v0, early: client = await client.save() on the Client that was found, which
\* has no change to write; the response is that Client.  If the row is gone by
\* now the save answers with the loaded document or fails.
LoginReuse(r, ok) ==
    /\ design # "evolved"
    /\ req[r].op = "login" /\ req[r].pc = "reuse"
    /\ ok \/ ~clients[req[r].dev].present
    /\ IF ok
       THEN req' = [req EXCEPT ![r] =
                [Closed(req[r], "200", ClientJSON)
                    EXCEPT !.dev = req[r].dev, !.uid = req[r].uid,
                           !.cid = req[r].dev]]
       ELSE Respond(r, "DB_ERROR", {})
    /\ UNCHANGED <<design, store, ids, removing, faults>>

\* v0, early: Client.create({ user: user.id, userAgent }), answered as it is.
LoginCreate(r, ok) ==
    /\ design # "evolved"
    /\ req[r].op = "login" /\ req[r].pc = "create"
    /\ Fault(ok)
    /\ IF ok
       THEN /\ clients' = [clients EXCEPT ![nClients + 1] = NewClient(req[r].uid)]
            /\ nClients' = nClients + 1
            /\ req' = [req EXCEPT ![r] =
                   [Closed(req[r], "200", ClientJSON)
                       EXCEPT !.dev = req[r].dev, !.uid = req[r].uid,
                              !.cid = nClients + 1]]
       ELSE /\ Respond(r, "SAVE_CLIENT_FAILED", {})
            /\ UNCHANGED <<clients, nClients>>
    /\ UNCHANGED <<design, users, totps, nUsers, nTotps, removing>>

\* Variant: a login that signs the account out everywhere else.
LoginRevokeAll(r, ok) ==
    /\ design = "evolved"
    /\ req[r].op = "login" /\ req[r].pc = "revoke"
    /\ Fault(ok)
    /\ IF ~ok
       THEN /\ Respond(r, "DB_ERROR", {})
            /\ UNCHANGED clients
       ELSE /\ clients' =
                   [c \in ClientIds |->
                       IF c \in Range(users[req[r].uid].clients) \/ c = req[r].dev
                       THEN [clients[c] EXCEPT !.isDeleted = clients[c].present]
                       ELSE clients[c]]
            /\ req' = [req EXCEPT ![r].pc = "client"]
    /\ UNCHANGED <<design, users, totps, ids, removing>>

\* evolved: "Soft delete existing client": Client.exists({ _id: device-id,
\* isDeleted: { $ne: true } }) and then Client.updateOne({ _id: device-id },
\* { isDeleted: true }).  Neither call has a handler for its failure.
LoginRevoke(r, ok) ==
    /\ design = "evolved"
    /\ req[r].op = "login" /\ req[r].pc = "revoke"
    /\ Fault(ok)
    /\ IF ~ok
       THEN /\ Respond(r, "DB_ERROR", {})
            /\ UNCHANGED clients
       ELSE /\ clients' =
                   IF Live(req[r].dev)
                   THEN [clients EXCEPT ![req[r].dev].isDeleted = TRUE]
                   ELSE clients
            /\ req' = [req EXCEPT ![r].pc = "client"]
    /\ UNCHANGED <<design, users, totps, ids, removing>>

\* evolved: Client.create({ userAgent }).
LoginClient(r, ok) ==
    /\ design = "evolved"
    /\ req[r].op = "login" /\ req[r].pc = "client"
    /\ Fault(ok)
    /\ IF ok
       THEN /\ clients' = [clients EXCEPT ![nClients + 1] = NewClient(0)]
            /\ nClients' = nClients + 1
            /\ req' = [req EXCEPT ![r].cid = nClients + 1, ![r].pc = "save"]
       ELSE /\ Respond(r, "SAVE_CLIENT_FAILED", {})
            /\ UNCHANGED <<clients, nClients>>
    /\ UNCHANGED <<design, users, totps, nUsers, nTotps, removing>>

\* Variant: a save that writes the list with the new session alone.
LoginSaveAlone(r, ok) ==
    /\ design = "evolved"
    /\ req[r].op = "login" /\ req[r].pc = "save"
    /\ Fault(ok)
    /\ IF ok
       THEN /\ users' = [users EXCEPT ![req[r].uid].clients = <<req[r].cid>>]
            /\ req' = [req EXCEPT ![r] =
                   [Closed(req[r], "200", ClientJSON \ {"isDeleted"})
                       EXCEPT !.dev = req[r].dev, !.uid = req[r].uid,
                              !.cid = req[r].cid]]
       ELSE /\ Respond(r, "SAVE_USER_FAILED", {})
            /\ UNCHANGED users
    /\ UNCHANGED <<design, clients, totps, ids, removing>>

\* evolved: user.clients.push(client.id); await user.save(), which writes the
\* push to the stored document; the response is the client without isDeleted.
LoginSave(r, ok) ==
    /\ design = "evolved"
    /\ req[r].op = "login" /\ req[r].pc = "save"
    /\ Fault(ok)
    /\ IF ok
       THEN /\ users' = [users EXCEPT ![req[r].uid].clients =
                                          Append(@, req[r].cid)]
            /\ req' = [req EXCEPT ![r] =
                   [Closed(req[r], "200", ClientJSON \ {"isDeleted"})
                       EXCEPT !.dev = req[r].dev, !.uid = req[r].uid,
                              !.cid = req[r].cid]]
       ELSE /\ Respond(r, "SAVE_USER_FAILED", {})
            /\ UNCHANGED users
    /\ UNCHANGED <<design, clients, totps, ids, removing>>

----------------------------------------------------------------------------
\* PURGE /accounts/auth (sign out).

\* Variant: the sign out route of early and evolved without its middleware.
SignOutUnchecked(r, dev, tok) ==
    /\ design # "v0"
    /\ Free(r)
    /\ dev \in DeviceIds /\ tok \in Tokens(dev)
    /\ req' = [req EXCEPT ![r] =
           [Idle EXCEPT !.op = "signout", !.dev = dev, !.tok = tok,
                        !.notes = SaidOfSession(dev), !.pc = "write"]]
    /\ UNCHANGED <<design, store, ids, removing, faults>>

\* early, evolved: the route runs the session check first.
SignOutCheck(r, dev, tok) ==
    /\ design # "v0"
    /\ Free(r)
    /\ dev \in DeviceIds /\ tok \in Tokens(dev)
    /\ LET v == requireVerification(dev, tok, FALSE, FALSE)
           q == [Idle EXCEPT !.op = "signout", !.dev = dev,
                             !.notes = SaidOfSession(dev)]
       IN  IF v.resp = "next"
           THEN req' = [req EXCEPT ![r] =
                    [q EXCEPT !.pc = "write", !.uid = v.uid, !.tok = tok]]
           ELSE Answer(r, q, v.resp)
    /\ UNCHANGED <<design, store, ids, removing, faults>>

\* The Client row the sign out's filter { _id, token } selects.
SignOutMatch(dev, tok) ==
    dev \in ClientIds /\ clients[dev].present /\ clients[dev].token = tok

\* Variant: a sign out whose write changes nothing.
RevokeNothing(dev) == clients

\* The Client collection after the sign out's write on the row it selects:
\* deleteOne removes the row (v0, early), updateOne sets isDeleted (evolved).
Revoke(dev) ==
    IF design = "evolved"
    THEN [clients EXCEPT ![dev].isDeleted = TRUE]
    ELSE [clients EXCEPT ![dev] = NoClient]

\* early: Client.deleteOne({ _id, token }); evolved: Client.updateOne(
\* { _id, token, is: { $ne: true } }, { isDeleted: true }), where no Client
\* has a field "is".
SignOutWrite(r, ok) ==
    /\ req[r].op = "signout" /\ req[r].pc = "write"
    /\ Fault(ok)
    /\ IF ~ok
       THEN /\ Respond(r, "SIGNOUT_FAILED", {})
            /\ UNCHANGED clients
       ELSE /\ clients' = IF SignOutMatch(req[r].dev, req[r].tok)
                              THEN Revoke(req[r].dev) ELSE clients
            /\ req' = [req EXCEPT ![r] =
                   [Closed(req[r], "SIGNED_OUT", {})
                       EXCEPT !.dev = req[r].dev,
                              !.acted = SignOutMatch(req[r].dev, req[r].tok)]]
    /\ UNCHANGED <<design, users, totps, ids, removing>>

\* v0: the handler checks that the two headers are there and calls
\* Client.deleteOne({ _id, token }).
SignOutV0(r, dev, tok, ok) ==
    /\ design = "v0"
    /\ Free(r)
    /\ dev \in DeviceIds /\ tok \in Tokens(dev)
    /\ Fault(ok)
    /\ LET q == [Idle EXCEPT !.op = "signout", !.dev = dev,
                             !.notes = SaidOfSession(dev)]
       IN  IF ~ok
           THEN /\ Answer(r, q, "SIGNOUT_FAILED")
                /\ UNCHANGED clients
           ELSE /\ clients' = IF SignOutMatch(dev, tok)
                              THEN Revoke(dev) ELSE clients
                /\ req' = [req EXCEPT ![r] =
                       [Closed(q, "SIGNED_OUT", {})
                           EXCEPT !.dev = dev,
                                  !.acted = SignOutMatch(dev, tok)]]
    /\ UNCHANGED <<design, users, totps, ids, removing>>

----------------------------------------------------------------------------
\* GET /accounts (fetch the account of the session).

\* What the store tells about the account of session dev: the session is
\* stored, and every account it belongs to was soft-deleted ("deleted").
SaidOfOwner(dev) ==
    IF /\ dev \in ClientIds /\ clients[dev].present
       /\ OwnersOf(dev) # {}
       /\ \A u \in OwnersOf(dev) : users[u].saved /\ users[u].isDeleted
    THEN {"deleted"} ELSE {}

\* The session check (v0: Client and User inline; early and evolved: with a
\* verified phone and email), then User.findOne({ _id: userId, isDeleted:
\* { $ne: true } }); the response is the document without password and
\* isDeleted.
Fetch(r, dev, tok, ok) ==
    /\ Free(r)
    /\ dev \in DeviceIds /\ tok \in Tokens(dev)
    /\ LET v == requireVerification(dev, tok, design # "v0", design # "v0")
           q == [Idle EXCEPT !.op = "fetch", !.dev = dev,
                             !.notes = SaidOfSession(dev) \cup SaidOfOwner(dev)]
       IN  /\ Fault(ok \/ v.resp # "next")
           /\ IF v.resp # "next" THEN Answer(r, q, v.resp)
              ELSE IF ~ok THEN Answer(r, q, "FIND_USER_FAILED")
              ELSE req' = [req EXCEPT ![r] =
                       [Closed(q, "200", UserJSON \ {"password", "isDeleted"})
                           EXCEPT !.uid = v.uid]]
    /\ UNCHANGED <<design, store, ids, removing>>

----------------------------------------------------------------------------
\* PATCH /accounts (update the profile), from the early design on.

\* The keys a request body carries in the model: two of the allow-list and
\* two outside of it.
Keys == {"firstName", "password", "email", "verifiedPhone"}

\* The bodies: at most one value for a key.  The value of a key outside the
\* allow-list reaches no decision of the handler; the model fixes it to 0.
Bodies ==
    {b \in SUBSET (Keys \X Values) :
        /\ \A x, y \in b : x[1] = y[1] => x = y
        /\ \A x \in b : x[1] \in {"email", "verifiedPhone"} => x[2] = 0}

\* Object.keys(request.body) and request.body[key]
KeysOf(b) == {x[1] : x \in b}
ValueOf(b, k) == (CHOOSE x \in b : x[1] = k)[2]

\* Variant: an allow-list that lets every key through.
updatableAll == Keys

\* const updatable = ['firstName', 'lastName', 'password', ...]
updatable == {"firstName", "password"}

\* The keys of a body that the allow-list of update does not name.
Offending(b) == KeysOf(b) \cap {"email", "verifiedPhone"}

\* user.validate() on the document with the new values.
ValidUpdate(b) ==
    \A x \in b : x[1] \in {"firstName", "password", "email"} => x[2] # 0

\* Variant: a copy that leaves out the first key.
AssignRest(doc, b) ==
    [doc EXCEPT !.password = IF "password" \in KeysOf(b)
                             THEN ValueOf(b, "password") ELSE @]

\* updates.forEach((update) => { user[update] = request.body[update]; })
Assign(doc, b) ==
    [doc EXCEPT
       !.firstName = IF "firstName" \in KeysOf(b)
                     THEN ValueOf(b, "firstName") ELSE @,
       !.password = IF "password" \in KeysOf(b)
                    THEN ValueOf(b, "password") ELSE @,
       !.email = IF "email" \in KeysOf(b) THEN ValueOf(b, "email") ELSE @,
       !.verifiedPhone = IF "verifiedPhone" \in KeysOf(b)
                         THEN ValueOf(b, "verifiedPhone") # 0 ELSE @]

\* The session check with a verified phone, the allow-list, User.findOne({
\* _id: userId, isDeleted: { $ne: true } }), the copy of the values and
\* user.validate().  The early handler loads the account before it looks at
\* the keys, the evolved one after.
Update(r, dev, tok, b, ok) ==
    /\ design # "v0"
    /\ Free(r)
    /\ dev \in DeviceIds /\ tok \in Tokens(dev)
    /\ b \in Bodies
    /\ LET v == requireVerification(dev, tok, TRUE, FALSE)
           q == [Idle EXCEPT !.op = "update", !.notes = Offending(b)]
           bad == KeysOf(b) \ updatable
           early == design = "evolved" /\ bad # {}
       IN  /\ Fault(ok \/ v.resp # "next" \/ early)
           /\ IF v.resp # "next" THEN Answer(r, q, v.resp)
              ELSE IF ~ok /\ ~early THEN Answer(r, q, "FIND_USER_FAILED")
              ELSE IF bad # {}
              THEN req' = [req EXCEPT ![r] = Closed(q, "FORBIDDEN_FIELDS", bad)]
              ELSE IF ~ValidUpdate(b) THEN Answer(r, q, "VALIDATION_ERROR")
              ELSE req' = [req EXCEPT ![r] =
                       [q EXCEPT !.pc = "save", !.uid = v.uid, !.upd = b]]
    /\ UNCHANGED <<design, store, ids, removing>>

\* Variant: an update that signs the account out of every session.
UpdateSaveSignOut(r, ok) ==
    /\ req[r].op = "update" /\ req[r].pc = "save"
    /\ Fault(ok)
    /\ IF ok
       THEN /\ users' = [users EXCEPT ![req[r].uid] = Assign(@, req[r].upd)]
            /\ clients' = [c \in ClientIds |->
                              IF req[r].uid \in OwnersOf(c)
                              THEN [clients[c] EXCEPT !.isDeleted = TRUE]
                              ELSE clients[c]]
            /\ req' = [req EXCEPT ![r] =
                   [Closed(req[r], "200",
                           UserJSON \ {"password", "isDeleted", "avatar"})
                       EXCEPT !.uid = req[r].uid, !.upd = req[r].upd,
                              !.acted = TRUE]]
       ELSE /\ Respond(r, "UPDATE_USER_FAILED", {})
            /\ UNCHANGED <<users, clients>>
    /\ UNCHANGED <<design, totps, ids, removing>>

\* await user.save(), which writes the paths that were assigned; the response
\* is the document without password, isDeleted and avatar.
UpdateSave(r, ok) ==
    /\ req[r].op = "update" /\ req[r].pc = "save"
    /\ Fault(ok)
    /\ IF ok
       THEN /\ users' = [users EXCEPT ![req[r].uid] = Assign(@, req[r].upd)]
            /\ req' = [req EXCEPT ![r] =
                   [Closed(req[r], "200",
                           UserJSON \ {"password", "isDeleted", "avatar"})
                       EXCEPT !.uid = req[r].uid, !.upd = req[r].upd,
                              !.acted = TRUE]]
       ELSE /\ Respond(r, "UPDATE_USER_FAILED", {})
            /\ UNCHANGED users
    /\ UNCHANGED <<design, clients, totps, ids, removing>>

----------------------------------------------------------------------------
\* DELETE /accounts (delete the account of the session).

\* The session check (v0: Client.findOne and User.findOne inline; early and
\* evolved: the middleware, with a verified phone, and User.findOne).  The
\* evolved handler then reads the Clients of the account, writes nothing and
\* confirms.  io tells which read fails, if any.
Delete(r, dev, tok, io) ==
    /\ Free(r)
    /\ dev \in DeviceIds /\ tok \in Tokens(dev)
    /\ io = "client" => design = "v0"
    /\ io = "list" => design = "evolved"
    /\ LET v == requireVerification(dev, tok, design # "v0", FALSE)
           q == [Idle EXCEPT !.op = "delete"]
       IN  /\ Fault(io = "ok" \/ (v.resp # "next" /\ io # "client"))
           /\ IF io = "client" THEN Answer(r, q, "ACCESS_CHECK_FAILED")
              ELSE IF v.resp # "next" THEN Answer(r, q, v.resp)
              ELSE IF io = "user" THEN Answer(r, q, "FIND_USER_FAILED")
              ELSE IF io = "list" THEN Answer(r, q, "DB_ERROR")
              ELSE IF design = "evolved"
              THEN req' = [req EXCEPT ![r] =
                       [Closed(q, "ACCOUNT_DELETED", {}) EXCEPT !.uid = v.uid]]
              ELSE req' = [req EXCEPT ![r] =
                       [q EXCEPT !.pc = "write", !.uid = v.uid]]
    /\ UNCHANGED <<design, store, ids, removing>>

\* Variant: a delete that also removes the sessions of the account.
DeleteWriteCascade(r, ok) ==
    /\ design # "evolved"
    /\ req[r].op = "delete" /\ req[r].pc = "write"
    /\ Fault(ok)
    /\ ok
    /\ users' = [users EXCEPT ![req[r].uid].isDeleted = TRUE]
    /\ clients' = [c \in ClientIds |->
                      IF clients[c].user = req[r].uid THEN NoClient
                      ELSE clients[c]]
    /\ req' = [req EXCEPT ![r] =
           [Closed(req[r], "ACCOUNT_DELETED", {})
               EXCEPT !.uid = req[r].uid, !.acted = TRUE]]
    /\ UNCHANGED <<design, totps, ids, removing>>

\* v0, early: await user.update({ isDeleted: true }) and the confirmation.
DeleteWrite(r, ok) ==
    /\ design # "evolved"
    /\ req[r].op = "delete" /\ req[r].pc = "write"
    /\ Fault(ok)
    /\ IF ok
       THEN /\ users' = [users EXCEPT ![req[r].uid].isDeleted = TRUE]
            /\ req' = [req EXCEPT ![r] =
                   [Closed(req[r], "ACCOUNT_DELETED", {})
                       EXCEPT !.uid = req[r].uid, !.acted = TRUE]]
       ELSE /\ Respond(r, "DELETE_USER_FAILED", {})
            /\ UNCHANGED users
    /\ UNCHANGED <<design, clients, totps, ids, removing>>

----------------------------------------------------------------------------
\* GET /accounts/:id (an administrator fetches an account), evolved design.

\* The accounts that hold the administrator role.  No route grants the role:
\* it is set in the store.
Admins == {1}

\* The session check with the administrator role, User.findById(id), the
\* population of the clients; the response is the document without password.
AdminFetch(r, dev, tok, id, ok) ==
    /\ design = "evolved"
    /\ Free(r)
    /\ dev \in DeviceIds /\ tok \in Tokens(dev)
    /\ id \in 0..nUsers
    /\ LET v == requireVerification(dev, tok, FALSE, FALSE)
           q == [Idle EXCEPT !.op = "adminfetch"]
           next == v.resp = "next" /\ v.uid \in Admins
       IN  /\ Fault(ok \/ ~next)
           /\ IF v.resp # "next" THEN Answer(r, q, v.resp)
              ELSE IF v.uid \notin Admins THEN Answer(r, q, "FORBIDDEN")
              ELSE IF ~ok THEN Answer(r, q, "FIND_USER_FAILED")
              ELSE IF ~(id \in UserIds /\ users[id].saved)
              THEN Answer(r, q, "NULL_USER")
              ELSE req' = [req EXCEPT ![r] =
                       [Closed(q, "200", UserJSON \ {"password"})
                           EXCEPT !.uid = id]]
    /\ UNCHANGED <<design, store, ids, removing>>

----------------------------------------------------------------------------
\* GET /accounts/verify/phone, GET /accounts/verify/email (request a
\* verification challenge), from the early design on.

\* The session check (with a verified phone for the email route), then
\* User.findById and the guard on the flag that is already set.
VerifyRequest(r, kind, dev, tok, ok) ==
    /\ design # "v0"
    /\ Free(r)
    /\ RoomForTotp
    /\ dev \in DeviceIds /\ tok \in Tokens(dev)
    /\ LET v == requireVerification(dev, tok, kind = "email", FALSE)
           q == [Idle EXCEPT !.op = IF kind = "phone" THEN "reqphone"
                                    ELSE "reqemail",
                             !.dev = dev, !.notes = SaidOfSession(dev)]
       IN  /\ Fault(ok \/ v.resp # "next")
           /\ IF v.resp # "next" THEN Answer(r, q, v.resp)
              ELSE IF ~ok THEN Answer(r, q, "FIND_USER_FAILED")
              ELSE IF \/ kind = "phone" /\ users[v.uid].verifiedPhone
                      \/ kind = "email" /\ users[v.uid].verifiedEmail
              THEN Answer(r, q, "ALREADY_VERIFIED")
              ELSE req' = [req EXCEPT ![r] =
                       [q EXCEPT !.pc = "totp", !.uid = v.uid]]
    /\ UNCHANGED <<design, store, ids, removing>>

\* GET /accounts/auth/otp-signin (evolved), POST /accounts/auth/
\* request-otp-signin (early): User.findOne({ $or: [{ email }, { phone }],
\* isDeleted: { $ne: true } }).  The early handler reads both from the body;
\* the evolved one looks the account up with the query and delivers to what
\* the body names, which body tells to be the same or nothing.
OtpRequest(r, email, phone, body, ok) ==
    /\ design # "v0"
    /\ Free(r)
    /\ RoomForTotp
    /\ design = "early" => body
    /\ Fault(ok)
    /\ LET q == [Idle EXCEPT !.op = "reqotp",
                             !.notes = SaidOfIdentity(email, phone)]
       IN  IF ~ok THEN Answer(r, q, "FIND_USER_FAILED")
           ELSE IF LoginMatches(email, phone) = {} THEN Answer(r, q, "NULL_USER")
           ELSE \E u \in LoginMatches(email, phone) :
                   req' = [req EXCEPT ![r] =
                       [q EXCEPT !.pc = "totp", !.uid = u,
                                 !.email = IF body THEN email ELSE 0,
                                 !.phone = IF body THEN phone ELSE 0]]
    /\ UNCHANGED <<design, store, ids, removing>>

\* Whether the handler calls a delivery service for the challenge.
Delivers(r) ==
    req[r].op \in {"reqphone", "reqemail"} \/ req[r].email # 0 \/ req[r].phone # 0

\* Variant: the challenge as it is stored.
TotpViewWhole == TotpJSON

\* const { secret, ...rest } = totp.toJSON()
TotpView == TotpJSON \ {"secret"}

\* Variant: a request flow that takes the challenge back when the delivery
\* fails.
ChallengeCreateUndo(r, secret, io) ==
    /\ req[r].pc = "totp"
    /\ io = "send" /\ Delivers(r)
    /\ Fault(FALSE)
    /\ nTotps' = nTotps + 1
    /\ req' = [req EXCEPT ![r] =
           [Closed(req[r], "OTP_SEND_FAILED", {})
               EXCEPT !.rid = nTotps + 1, !.uid = req[r].uid]]
    /\ UNCHANGED <<design, users, clients, totps, nUsers, nClients, removing>>

\* TOTP.create({ user: user.id }) with the secret the schema draws, the
\* delivery of generateOTP(totp.secret), and the response: the challenge
\* without its secret.  io tells which of the two calls fails, if any.  The
\* note "sent" tells that a delivery service has taken the code.
ChallengeCreate(r, secret, io) ==
    /\ req[r].pc = "totp"
    /\ io = "send" => Delivers(r)
    /\ Fault(io = "ok")
    /\ IF io = "create"
       THEN /\ Respond(r, "OTP_GENERATION_FAILED", {})
            /\ UNCHANGED <<totps, nTotps>>
       ELSE /\ totps' = [totps EXCEPT ![nTotps + 1] =
                   [present |-> TRUE, secret |-> secret, user |-> req[r].uid]]
            /\ nTotps' = nTotps + 1
            /\ req' = [req EXCEPT ![r] =
                   [(IF io = "send"
                     THEN Closed(req[r], "OTP_SEND_FAILED", {})
                     ELSE Closed(req[r], "200", TotpView))
                       EXCEPT !.rid = nTotps + 1, !.uid = req[r].uid,
                              !.notes = IF io = "ok" /\ Delivers(r)
                                        THEN @ \cup {"sent"} ELSE @]]
    /\ UNCHANGED <<design, users, clients, nUsers, nClients, removing>>

----------------------------------------------------------------------------
\* POST /accounts/verify/phone, POST /accounts/verify/email (confirm).

\* Variant: a mismatch that is answered like a match.
RejectAsVerified(r, q, rid) ==
    req' = [req EXCEPT ![r] = [Closed(q, "VERIFIED", {}) EXCEPT !.rid = rid]]

\* The answer to a code that otp.verifyOTP does not accept: INVALID_OTP, with
\* nothing written.
Reject(r, q, rid) ==
    req' = [req EXCEPT ![r] = [Closed(q, "INVALID_OTP", {}) EXCEPT !.rid = rid]]

\* What the store tells about challenge rid and session dev: the challenge
\* is stored and was issued for an account that session dev does not belong
\* to ("foreign").
SaidOfIssue(rid, dev) ==
    IF /\ rid \in TotpIds /\ totps[rid].present
       /\ dev \in ClientIds /\ clients[dev].present
       /\ totps[rid].user \notin OwnersOf(dev)
    THEN {"foreign"} ELSE {}

\* Variant: a lookup of the challenge by its id alone.
FindTotpAny(rid, uid) == rid \in TotpIds /\ totps[rid].present

\* TOTP.findOne({ _id: request.body.requestId, user: user.id })
FindTotp(rid, uid) ==
    rid \in TotpIds /\ totps[rid].present /\ totps[rid].user = uid

\* The session check, User.findById, TOTP.findOne({ _id: requestId, user:
\* user.id }), otp.verifyOTP(totp.secret, code) and, on a match, the call of
\* totp.remove() that the handler does not await.  io tells which of the two
\* reads fails, if any.
VerifyConfirm(r, kind, dev, tok, rid, code, io) ==
    /\ design # "v0"
    /\ Free(r)
    /\ dev \in DeviceIds /\ tok \in Tokens(dev)
    /\ rid \in RequestIds /\ code \in Codes
    /\ LET v == requireVerification(dev, tok, kind = "email", FALSE)
           q == [Idle EXCEPT !.op = kind, !.dev = dev, !.rid = rid,
                             !.notes = SaidOfSession(dev)
                                       \cup SaidOfChallenge(rid, code)
                                       \cup SaidOfIssue(rid, dev)]
           found == FindTotp(rid, v.uid)
       IN  /\ Fault(io = "ok" \/ v.resp # "next")
           /\ IF v.resp # "next"
              THEN Answer(r, q, v.resp) /\ UNCHANGED removing
              ELSE IF io = "user"
              THEN Answer(r, q, "FIND_USER_FAILED") /\ UNCHANGED removing
              ELSE IF io = "totp"
              THEN Answer(r, q, "FIND_TOTP_FAILED") /\ UNCHANGED removing
              ELSE IF ~found
              THEN Answer(r, q, "UNAVAILABLE_OTP") /\ UNCHANGED removing
              ELSE IF ~verifyOTP(totps[rid].secret, code)
              THEN Reject(r, q, rid) /\ UNCHANGED removing
              ELSE /\ removing' = removing \cup {rid}
                   /\ req' = [req EXCEPT ![r] =
                          [q EXCEPT !.pc = "save", !.uid = v.uid]]
    /\ UNCHANGED <<design, store, ids>>

\* user.verifiedPhone = true (user.verifiedEmail = true); await user.save(),
\* which writes the one path that changed; the acknowledgement.  A failure of
\* the save has no handler of its own.
VerifySave(r, ok) ==
    /\ req[r].op \in {"phone", "email"} /\ req[r].pc = "save"
    /\ Fault(ok)
    /\ IF ok
       THEN /\ users' = IF req[r].op = "phone"
                        THEN [users EXCEPT ![req[r].uid].verifiedPhone = TRUE]
                        ELSE [users EXCEPT ![req[r].uid].verifiedEmail = TRUE]
            /\ req' = [req EXCEPT ![r] =
                   [Closed(req[r], "VERIFIED", {})
                       EXCEPT !.rid = req[r].rid, !.uid = req[r].uid,
                              !.acted = TRUE]]
       ELSE /\ Respond(r, "DB_ERROR", {})
            /\ UNCHANGED users
    /\ UNCHANGED <<design, clients, totps, ids, removing>>

----------------------------------------------------------------------------
\* POST /accounts/auth/otp-signin (confirm an OTP login).

\* TOTP.findOne({ _id: requestId }) and otp.verifyOTP(totp.secret, code).
OtpSignin(r, rid, code, ok) ==
    /\ design # "v0"
    /\ Free(r)
    /\ RoomForClient
    /\ rid \in RequestIds /\ code \in Codes
    /\ Fault(ok)
    /\ LET q == [Idle EXCEPT !.op = "otpsignin", !.rid = rid,
                             !.notes = SaidOfChallenge(rid, code)]
       IN  IF ~ok THEN Answer(r, q, "FIND_TOTP_FAILED")
           ELSE IF ~(rid \in TotpIds /\ totps[rid].present)
           THEN Answer(r, q, "UNAVAILABLE_OTP")
           ELSE IF ~verifyOTP(totps[rid].secret, code)
           THEN Reject(r, q, rid)
           ELSE req' = [req EXCEPT ![r] =
                    [q EXCEPT !.uid = totps[rid].user,
                              !.pc = IF design = "evolved"
                                     THEN "user" ELSE "client"]]
    /\ UNCHANGED <<design, store, ids, removing>>

\* early: Client.create({ user: totp.user, userAgent }), the call of
\* totp.remove() that nobody awaits, and the response: the client as it is.
OtpSigninClientEarly(r, ok) ==
    /\ design = "early"
    /\ req[r].op = "otpsignin" /\ req[r].pc = "client"
    /\ Fault(ok)
    /\ IF ok
       THEN /\ clients' = [clients EXCEPT ![nClients + 1] = NewClient(req[r].uid)]
            /\ nClients' = nClients + 1
            /\ removing' = removing \cup {req[r].rid}
            /\ req' = [req EXCEPT ![r] =
                   [Closed(req[r], "200", ClientJSON)
                       EXCEPT !.rid = req[r].rid, !.uid = req[r].uid,
                              !.cid = nClients + 1, !.acted = TRUE]]
       ELSE /\ Respond(r, "SAVE_CLIENT_FAILED", {})
            /\ UNCHANGED <<clients, nClients, removing>>
    /\ UNCHANGED <<design, users, totps, nUsers, nTotps>>

\* evolved: User.findOne({ _id: totp.user, isDeleted: { $ne: true } }); the
\* handler goes on with what the query answers, an account or null.
OtpSigninUser(r, ok) ==
    /\ design = "evolved"
    /\ req[r].op = "otpsignin" /\ req[r].pc = "user"
    /\ Fault(ok)
    /\ IF ok
       THEN req' = [req EXCEPT
                ![r].pc = "client",
                ![r].uid = IF /\ users[req[r].uid].saved
                              /\ ~users[req[r].uid].isDeleted
                           THEN req[r].uid ELSE 0]
       ELSE Respond(r, "FIND_USER_FAILED", {})
    /\ UNCHANGED <<design, store, ids, removing>>

\* evolved: Client.create({ userAgent }); user.clients.push(client.id) throws
\* when the account query answered null.
OtpSigninClient(r, ok) ==
    /\ design = "evolved"
    /\ req[r].op = "otpsignin" /\ req[r].pc = "client"
    /\ Fault(ok)
    /\ IF ok
       THEN /\ clients' = [clients EXCEPT ![nClients + 1] = NewClient(0)]
            /\ nClients' = nClients + 1
            /\ req' = [req EXCEPT ![r] =
                   IF req[r].uid = 0
                   THEN Closed(req[r], "TYPE_ERROR", {})
                   ELSE [req[r] EXCEPT !.cid = nClients + 1, !.pc = "save"]]
       ELSE /\ Respond(r, "SAVE_CLIENT_FAILED", {})
            /\ UNCHANGED <<clients, nClients>>
    /\ UNCHANGED <<design, users, totps, nUsers, nTotps, removing>>

\* Variant: an OTP login that links its session to the first account.
OtpSigninSaveFirst(r, ok) ==
    /\ design = "evolved"
    /\ req[r].op = "otpsignin" /\ req[r].pc = "save"
    /\ Fault(ok)
    /\ IF ok
       THEN /\ users' = [users EXCEPT ![1].clients = Append(@, req[r].cid)]
            /\ removing' = removing \cup {req[r].rid}
            /\ req' = [req EXCEPT ![r] =
                   [Closed(req[r], "200", ClientJSON \ {"isDeleted"})
                       EXCEPT !.rid = req[r].rid, !.uid = req[r].uid,
                              !.cid = req[r].cid, !.acted = TRUE]]
       ELSE /\ Respond(r, "UPDATE_USER_FAILED", {})
            /\ UNCHANGED <<users, removing>>
    /\ UNCHANGED <<design, clients, totps, ids>>

\* evolved: await user.save() writes the push; then the call of totp.remove()
\* that nobody awaits, and the response: the client without isDeleted.
OtpSigninSave(r, ok) ==
    /\ design = "evolved"
    /\ req[r].op = "otpsignin" /\ req[r].pc = "save"
    /\ Fault(ok)
    /\ IF ok
       THEN /\ users' = [users EXCEPT ![req[r].uid].clients =
                                          Append(@, req[r].cid)]
            /\ removing' = removing \cup {req[r].rid}
            /\ req' = [req EXCEPT ![r] =
                   [Closed(req[r], "200", ClientJSON \ {"isDeleted"})
                       EXCEPT !.rid = req[r].rid, !.uid = req[r].uid,
                              !.cid = req[r].cid, !.acted = TRUE]]
       ELSE /\ Respond(r, "UPDATE_USER_FAILED", {})
            /\ UNCHANGED <<users, removing>>
    /\ UNCHANGED <<design, clients, totps, ids>>

\* Variant: a removal whose failure takes the verification back.
ApplyRemoveUndo(t, ok) ==
    /\ t \in removing
    /\ Fault(ok)
    /\ removing' = removing \ {t}
    /\ totps' = IF ok THEN [totps EXCEPT ![t] = NoTotp] ELSE totps
    /\ users' = IF ok THEN users
                ELSE [users EXCEPT ![totps[t].user].verifiedPhone = FALSE,
                                   ![totps[t].user].verifiedEmail = FALSE]
    /\ UNCHANGED <<design, clients, ids, req>>

\* A totp.remove() in flight reaches the store, or fails: the handler's catch
\* writes the error to the log and nothing else.
ApplyRemove(t, ok) ==
    /\ t \in removing
    /\ Fault(ok)
    /\ removing' = removing \ {t}
    /\ totps' = IF ok THEN [totps EXCEPT ![t] = NoTotp] ELSE totps
    /\ UNCHANGED <<design, users, clients, ids, req>>

----------------------------------------------------------------------------
\* The connection of a finished request closes; the slot takes a new request.
Return(r) ==
    /\ req[r].pc = "done"
    /\ req' = [req EXCEPT ![r] = Idle]
    /\ UNCHANGED <<design, store, ids, removing, faults>>

----------------------------------------------------------------------------
Init ==
    /\ design \in Designs
    /\ users = [u \in UserIds |-> NoUser]
    /\ clients = [c \in ClientIds |-> NoClient]
    /\ totps = [t \in TotpIds |-> NoTotp]
    /\ nUsers = 0 /\ nClients = 0 /\ nTotps = 0
    /\ removing = {}
    /\ faults = 0
    /\ req = [s \in Slots |-> Idle]

\* The store outlives the process: the router starts on what the collections
\* hold.  Seeded(n) is the store that n registrations leave behind, each with
\* the session it created.
SeededUser(u) ==
    [saved |-> TRUE, email |-> u, phone |-> u, password |-> 1,
     firstName |-> 0, verifiedPhone |-> FALSE, verifiedEmail |-> FALSE, isDeleted |-> FALSE,
     clients |-> IF design = "evolved" THEN <<u>> ELSE <<>>]

Seeded(n) ==
    /\ users = [u \in UserIds |-> IF u <= n THEN SeededUser(u) ELSE NoUser]
    /\ clients = [c \in ClientIds |->
                     IF c <= n
                     THEN [present |-> TRUE, token |-> NewToken(c), user |-> c,
                           isDeleted |-> FALSE]
                     ELSE NoClient]
    /\ totps = [t \in TotpIds |-> NoTotp]
    /\ nUsers = n /\ nClients = n /\ nTotps = 0

InitSeeded ==
    /\ design \in Designs
    /\ \E n \in 1..MaxUsers : Seeded(n)
    /\ removing = {}
    /\ faults = 0
    /\ req = [s \in Slots |-> Idle]

\* The store of a deployment in use: the accounts of Seeded(n), which have
\* verified their phones and emails where the design has the flows for it.
InitAccounts ==
    /\ design \in Designs
    /\ \E n \in 1..MaxUsers :
          /\ users = [u \in UserIds |->
                         IF u <= n
                         THEN [SeededUser(u) EXCEPT
                                 !.verifiedPhone = design # "v0",
                                 !.verifiedEmail = design # "v0"]
                         ELSE NoUser]
          /\ clients = [c \in ClientIds |->
                           IF c <= n
                           THEN [present |-> TRUE, token |-> NewToken(c),
                                 user |-> c, isDeleted |-> FALSE]
                           ELSE NoClient]
          /\ totps = [t \in TotpIds |-> NoTotp]
          /\ nUsers = n /\ nClients = n /\ nTotps = 0
    /\ removing = {}
    /\ faults = 0
    /\ req = [s \in Slots |-> Idle]

\* The store after account 1 has asked for two challenges for its phone and
\* has confirmed one of them: the phone is verified, the other challenge is
\* still there.
InitLeftover ==
    /\ design \in Designs \ {"v0"}
    /\ \E n \in 1..MaxUsers, s \in Secrets :
          /\ users = [u \in UserIds |->
                         IF u = 1
                         THEN [SeededUser(1) EXCEPT !.verifiedPhone = TRUE]
                         ELSE IF u <= n THEN SeededUser(u) ELSE NoUser]
          /\ clients = [c \in ClientIds |->
                           IF c <= n
                           THEN [present |-> TRUE, token |-> NewToken(c),
                                 user |-> c, isDeleted |-> FALSE]
                           ELSE NoClient]
          /\ totps = [t \in TotpIds |->
                         IF t = 1
                         THEN [present |-> TRUE, secret |-> s, user |-> 1]
                         ELSE NoTotp]
          /\ nUsers = n /\ nClients = n /\ nTotps = 1
    /\ removing = {}
    /\ faults = 0
    /\ req = [s \in Slots |-> Idle]

RegisterNext ==
    \/ \E r \in Slots, e \in Emails, p \in Phones, w \in Passwords,
          ok \in BOOLEAN : Register(r, e, p, w, ok)
    \/ \E r \in Slots, ok \in BOOLEAN : RegisterSaveEarly(r, ok)
    \/ \E r \in Slots, ok \in BOOLEAN : RegisterClientEarly(r, ok)
    \/ \E r \in Slots, ok \in BOOLEAN : RegisterClient(r, ok)
    \/ \E r \in Slots, ok \in BOOLEAN : RegisterSave(r, ok)

LoginNext ==
    \/ \E r \in Slots, e \in Emails, p \in Phones, w \in Passwords,
          d \in 0..MaxClients, io \in {"ok", "find", "compare"} :
           Login(r, e, p, w, d, io)
    \/ \E r \in Slots, ok \in BOOLEAN : LoginFindClient(r, ok)
    \/ \E r \in Slots, ok \in BOOLEAN : LoginReuse(r, ok)
    \/ \E r \in Slots, ok \in BOOLEAN : LoginCreate(r, ok)
    \/ \E r \in Slots, ok \in BOOLEAN : LoginRevoke(r, ok)
    \/ \E r \in Slots, ok \in BOOLEAN : LoginClient(r, ok)
    \/ \E r \in Slots, ok \in BOOLEAN : LoginSave(r, ok)

SignOutNext ==
    \/ \E r \in Slots, d \in 0..MaxClients, t \in AnyToken : SignOutCheck(r, d, t)
    \/ \E r \in Slots, ok \in BOOLEAN : SignOutWrite(r, ok)
    \/ \E r \in Slots, d \in 0..MaxClients, t \in AnyToken, ok \in BOOLEAN :
           SignOutV0(r, d, t, ok)

FetchNext ==
    \E r \in Slots, d \in 0..MaxClients, t \in AnyToken, ok \in BOOLEAN :
        Fetch(r, d, t, ok)

SessionNext ==
    \/ LoginNext
    \/ SignOutNext
    \/ FetchNext

UpdateNext ==
    \/ \E r \in Slots, d \in 0..MaxClients, t \in AnyToken, b \in Bodies,
          ok \in BOOLEAN : Update(r, d, t, b, ok)
    \/ \E r \in Slots, ok \in BOOLEAN : UpdateSave(r, ok)

DeleteNext ==
    \/ \E r \in Slots, d \in 0..MaxClients, t \in AnyToken,
          io \in {"ok", "client", "user", "list"} : Delete(r, d, t, io)
    \/ \E r \in Slots, ok \in BOOLEAN : DeleteWrite(r, ok)

AdminNext ==
    \E r \in Slots, d \in 0..MaxClients, t \in AnyToken, i \in 0..MaxUsers,
       ok \in BOOLEAN : AdminFetch(r, d, t, i, ok)

AccountNext ==
    \/ UpdateNext
    \/ DeleteNext
    \/ AdminNext

\* The steps the challenge flows share.
ChallengeNext ==
    \/ \E r \in Slots, s \in Secrets, io \in {"ok", "create", "send"} :
           ChallengeCreate(r, s, io)
    \/ \E t \in TotpIds, ok \in BOOLEAN : ApplyRemove(t, ok)

VerifyNext ==
    \/ \E r \in Slots, k \in {"phone", "email"}, d \in 0..MaxClients,
          t \in AnyToken, ok \in BOOLEAN : VerifyRequest(r, k, d, t, ok)
    \/ \E r \in Slots, k \in {"phone", "email"}, d \in 0..MaxClients,
          t \in AnyToken, i \in 0..MaxTotps, c \in Codes,
          io \in {"ok", "user", "totp"} : VerifyConfirm(r, k, d, t, i, c, io)
    \/ \E r \in Slots, ok \in BOOLEAN : VerifySave(r, ok)

OtpLoginNext ==
    \/ \E r \in Slots, e \in Emails, p \in Phones, b \in BOOLEAN,
          ok \in BOOLEAN : OtpRequest(r, e, p, b, ok)
    \/ \E r \in Slots, i \in 0..MaxTotps, c \in Codes, ok \in BOOLEAN :
           OtpSignin(r, i, c, ok)
    \/ \E r \in Slots, ok \in BOOLEAN : OtpSigninClientEarly(r, ok)
    \/ \E r \in Slots, ok \in BOOLEAN : OtpSigninUser(r, ok)
    \/ \E r \in Slots, ok \in BOOLEAN : OtpSigninClient(r, ok)
    \/ \E r \in Slots, ok \in BOOLEAN : OtpSigninSave(r, ok)

OtpNext ==
    \/ ChallengeNext
    \/ VerifyNext
    \/ OtpLoginNext

Close == \E r \in Slots : Return(r)

Next ==
    \/ RegisterNext
    \/ SessionNext
    \/ AccountNext
    \/ OtpNext
    \/ Close

\* The router from an empty store.
Spec == Init /\ [][Next]_vars

\* Registration alone, from an empty store.
SpecRegister == Init /\ [][RegisterNext \/ Close]_vars

\* Registration, login, sign out and the fetch of the account, on a store
\* that holds accounts.
SpecSession == InitSeeded /\ [][RegisterNext \/ SessionNext \/ Close]_vars

\* The challenge flows on a store that holds accounts.
SpecOtp == InitSeeded /\ [][OtpNext \/ Close]_vars

\* The verification of a phone and of an email alone.
SpecVerify == InitSeeded /\ [][ChallengeNext \/ VerifyNext \/ Close]_vars

\* The login by a one-time code alone.
SpecOtpLogin == InitSeeded /\ [][ChallengeNext \/ OtpLoginNext \/ Close]_vars

\* The login by a one-time code and the deletion of accounts, on a store of
\* accounts in use.
SpecOtpDeleted ==
    InitAccounts /\ [][DeleteNext \/ ChallengeNext \/ OtpLoginNext \/ Close]_vars

\* The steps of the request of an OTP login.
OtpRequestNext ==
    \/ \E r \in Slots, e \in Emails, p \in Phones, b \in BOOLEAN,
          ok \in BOOLEAN : OtpRequest(r, e, p, b, ok)
    \/ \E r \in Slots, s \in Secrets, io \in {"ok", "create", "send"} :
           ChallengeCreate(r, s, io)

\* The steps of the confirm of a phone or an email.
ConfirmNext ==
    \/ \E r \in Slots, k \in {"phone", "email"}, d \in 0..MaxClients,
          t \in AnyToken, i \in 0..MaxTotps, c \in Codes,
          io \in {"ok", "user", "totp"} : VerifyConfirm(r, k, d, t, i, c, io)
    \/ \E r \in Slots, ok \in BOOLEAN : VerifySave(r, ok)
    \/ \E t \in TotpIds, ok \in BOOLEAN : ApplyRemove(t, ok)

\* The challenge of an OTP login in front of the confirm of a phone or an
\* email.
SpecPurpose == InitSeeded /\ [][OtpRequestNext \/ ConfirmNext \/ Close]_vars

\* The confirms in front of a challenge of an account that is verified.
SpecLeftover == InitLeftover /\ [][ConfirmNext \/ Close]_vars

\* The evolved router on the store with the leftover challenge and one
\* account.
InitRace == InitLeftover /\ design = "evolved" /\ nUsers = 1

\* The steps of the requests of the evolved router that load an account,
\* change it and save it: login, confirm and update, sent by the owner of
\* the account with the email, the session, the challenge and the code that
\* are its own and with keys the update allows.  Every write succeeds or
\* fails.
RaceNext ==
    \/ \E r \in Slots, w \in Passwords, d \in 0..MaxClients :
           Login(r, 1, 1, w, d, "ok")
    \/ \E r \in Slots, ok \in BOOLEAN : LoginRevoke(r, ok)
    \/ \E r \in Slots, ok \in BOOLEAN : LoginClient(r, ok)
    \/ \E r \in Slots, ok \in BOOLEAN : LoginSave(r, ok)
    \/ \E r \in Slots, k \in {"phone", "email"}, d \in ClientIds,
          t \in AnyToken \ {0}, i \in TotpIds, c \in Codes \ {0} :
           VerifyConfirm(r, k, d, t, i, c, "ok")
    \/ \E r \in Slots, ok \in BOOLEAN : VerifySave(r, ok)
    \/ \E t \in TotpIds, ok \in BOOLEAN : ApplyRemove(t, ok)
    \/ \E r \in Slots, d \in ClientIds, t \in AnyToken \ {0},
          b \in {x \in Bodies : KeysOf(x) \subseteq updatable} :
           Update(r, d, t, b, TRUE)
    \/ \E r \in Slots, ok \in BOOLEAN : UpdateSave(r, ok)

\* Logins, confirms and updates of one account side by side.
SpecRace == InitRace /\ [][RaceNext \/ Close]_vars

\* The update of the profile alone, on a store that holds accounts.
SpecProfile == InitAccounts /\ [][UpdateNext \/ Close]_vars

\* The fetch of the session's account and the fetch by an administrator.
SpecViews == InitAccounts /\ [][FetchNext \/ AdminNext \/ Close]_vars

\* The delete of an account next to registration.
SpecDelete == InitAccounts /\ [][RegisterNext \/ DeleteNext \/ Close]_vars

\* Deleted accounts: delete next to login, the request of an OTP login and
\* the fetch of the account.
SpecDeleted ==
    InitAccounts
    /\ [][DeleteNext \/ LoginNext \/ OtpRequestNext \/ FetchNext \/ Close]_vars

----------------------------------------------------------------------------
\* Properties.

\* Answers of a confirm request that tell a success.
Won == {"VERIFIED", "200"}

\* C1: once a confirm has succeeded with a challenge, every confirm request
\* that arrives later with the same challenge id fails, whatever its code and
\* its flow, and goes no further than its first step.
C1_SingleUse ==
    \A r \in Slots :
        (req[r].op \in ConfirmOps /\ "won" \in req[r].notes) =>
            req[r].pc = "done" /\ req[r].resp \notin Won

\* C2: of two confirm requests that overlap in time and present the same
\* challenge with the correct code, at most one succeeds.
C2_AtMostOneConsumption ==
    \A r, s \in Slots :
        (/\ r # s
         /\ req[r].pc = "done" /\ req[s].pc = "done"
         /\ req[r].op \in ConfirmOps /\ req[s].op \in ConfirmOps
         /\ req[r].rid = req[s].rid /\ req[r].rid # 0
         /\ "won" \notin req[r].notes /\ "won" \notin req[s].notes)
        => ~(req[r].resp \in Won /\ req[s].resp \in Won)

\* C3: a confirm request whose code is not the one derived from the secret of
\* the challenge it names is answered by its first step, with INVALID_OTP
\* unless the request fails before the comparison (the session check, a read
\* that fails, a challenge of another account), and that step changes no
\* challenge, no account and no session.
C3_WrongCodeKeepsChallenge ==
    [][\A r \in Slots :
          (/\ req'[r] # req[r]
           /\ req'[r].op \in ConfirmOps
           /\ "wrong" \in req'[r].notes)
          => /\ req'[r].pc = "done"
             /\ store' = store /\ removing' = removing /\ ids' = ids
             /\ req'[r].resp \in
                  IF req'[r].op = "otpsignin"
                  THEN {"INVALID_OTP", "FIND_TOTP_FAILED"}
                  ELSE {"INVALID_OTP", "FIND_TOTP_FAILED", "FIND_USER_FAILED",
                        "UNAUTHORIZED", "NULL_USER", "NOT_VERIFIED",
                        "UNAVAILABLE_OTP"}]_vars

\* C3, its case: a confirm was answered INVALID_OTP, the challenge is still
\* there, and a confirm that arrived after that answer has succeeded with it.
C3_Witness ==
    \E r, s \in Slots :
        /\ req[s].pc = "done" /\ req[s].op \in ConfirmOps
        /\ req[s].resp = "INVALID_OTP" /\ "wrong" \in req[s].notes
        /\ req[r].pc = "done" /\ req[r].op \in ConfirmOps
        /\ req[r].rid = req[s].rid
        /\ "tried" \in req[r].notes /\ req[r].resp \in Won

\* C4: the step that answers a password login with a session leaves that
\* session stored, not deleted and owned by the account that was
\* authenticated and by no other.
C4_LoginBindsSession ==
    [][\A r \in Slots :
          (/\ req[r].op = "login" /\ req[r].pc # "done"
           /\ req'[r].pc = "done" /\ req'[r].resp = "200")
          => /\ clients'[req'[r].cid].present
             /\ ~clients'[req'[r].cid].isDeleted
             /\ IF design = "evolved"
                THEN \A u \in UserIds :
                        (users'[u].saved
                         /\ req'[r].cid \in Range(users'[u].clients))
                        <=> u = req'[r].uid
                ELSE clients'[req'[r].cid].user = req'[r].uid]_vars

\* C5: when two password logins that presented the same device-id have both
\* been answered with a session, at most one session is live among the one
\* the device-id names and the ones the two answers carry.
C5_OneLiveSessionPerDevice ==
    \A r, s \in Slots :
        (/\ r # s
         /\ req[r].op = "login" /\ req[s].op = "login"
         /\ req[r].pc = "done" /\ req[s].pc = "done"
         /\ req[r].resp = "200" /\ req[s].resp = "200"
         /\ req[r].dev = req[s].dev /\ req[r].dev # 0)
        => Cardinality({c \in {req[r].dev, req[r].cid, req[s].cid} :
                           Live(c)}) <= 1

\* C6: a request to a route that runs the session check, arriving after a
\* sign out has removed or flagged the session it names, is rejected as
\* unauthenticated by its first step.
C6_RevokedStaysRevoked ==
    \A r \in Slots :
        (req[r].op = "fetch" /\ "revoked" \in req[r].notes) =>
            req[r].pc = "done" /\ req[r].resp = "UNAUTHORIZED"

\* C6, its case: a sign out has revoked a session and a later fetch with the
\* id and the token of that session was turned away.
C6_Witness ==
    \E r, s \in Slots :
        /\ req[s].pc = "done" /\ req[s].op = "signout"
        /\ req[s].resp = "SIGNED_OUT" /\ req[s].acted
        /\ req[r].pc = "done" /\ req[r].op = "fetch"
        /\ "revoked" \in req[r].notes
        /\ req[r].resp = "UNAUTHORIZED"

\* C7 as stated: a sign out of a session that a sign out has already revoked
\* is answered with the confirmation of a sign out (or with the failure of
\* its write), never turned away.
C7_SignOutAgainConfirmed ==
    \A r \in Slots :
        (req[r].op = "signout" /\ "revoked" \in req[r].notes
         /\ req[r].pc = "done")
        => req[r].resp \in {"SIGNED_OUT", "SIGNOUT_FAILED"}

\* C7 amended: a sign out of a session that a sign out has already revoked
\* is answered by its first step and changes nothing in the store; v0 answers
\* it with the confirmation (or the failure of its write), early and evolved
\* turn it away as unauthenticated.
C7_SignOutAgainNoEffect ==
    [][\A r \in Slots :
          (/\ req'[r] # req[r]
           /\ req'[r].op = "signout"
           /\ "revoked" \in req'[r].notes)
          => /\ req'[r].pc = "done"
             /\ store' = store
             /\ req'[r].resp \in IF design = "v0"
                                 THEN {"SIGNED_OUT", "SIGNOUT_FAILED"}
                                 ELSE {"UNAUTHORIZED"}]_vars

\* C7, its case: a second sign out of a revoked session has been answered.
C7_Witness ==
    \E r, s \in Slots :
        /\ req[s].pc = "done" /\ req[s].op = "signout"
        /\ req[s].resp = "SIGNED_OUT" /\ req[s].acted
        /\ req[r].pc = "done" /\ req[r].op = "signout"
        /\ "revoked" \in req[r].notes
        /\ req[r].resp \in {"SIGNED_OUT", "UNAUTHORIZED"}

\* C8: a step of a registration changes no account but its own and no
\* session that existed, creates at most one session, and the step that
\* answers 201 leaves the account stored with the email and the phone of the
\* request, exactly one session linked to it, that session linked to no
\* other account, and an answer without the field isDeleted.
C8_RegisterAddsOne ==
    [][\A r \in Slots :
          (/\ req[r].op = "register" /\ req[r].pc \in {"save", "client"}
           /\ req'[r] # req[r])
          => /\ \A u \in UserIds \ {req[r].uid} : users'[u] = users[u]
             /\ \A c \in 1..nClients : clients'[c] = clients[c]
             /\ nClients' \in {nClients, nClients + 1}
             /\ nUsers' = nUsers
             /\ req'[r].resp = "201" =>
                  /\ req'[r].uid = req[r].uid
                  /\ users'[req[r].uid].saved
                  /\ ~users'[req[r].uid].isDeleted
                  /\ users'[req[r].uid].email = req[r].email
                  /\ users'[req[r].uid].phone = req[r].phone
                  /\ clients'[req'[r].cid].present
                  /\ ~clients'[req'[r].cid].isDeleted
                  /\ IF design = "evolved"
                     THEN /\ users'[req[r].uid].clients = <<req'[r].cid>>
                          /\ \A u \in UserIds \ {req[r].uid} :
                                req'[r].cid \notin Range(users'[u].clients)
                     ELSE {c \in ClientIds : /\ clients'[c].present
                                             /\ clients'[c].user = req[r].uid}
                          = {req'[r].cid}
                  /\ "isDeleted" \notin req'[r].fields]_vars

\* C8, its case: a registration has been answered 201.
C8_Witness ==
    \E r \in Slots :
        /\ req[r].pc = "done" /\ req[r].op = "register"
        /\ req[r].resp = "201"
        /\ users[req[r].uid].saved /\ clients[req[r].cid].present

\* C9: a registration that arrives with an email owned by an account that is
\* not deleted is answered by its first step with USER_EXISTS (or with the
\* failure of the existence check itself), whatever its phone, and that step
\* creates no account and no session.
C9_OwnedEmailConflict ==
    [][\A r \in Slots :
          (/\ req'[r] # req[r]
           /\ req'[r].op = "register"
           /\ "owned" \in req'[r].notes)
          => /\ req'[r].pc = "done"
             /\ req'[r].resp \in {"USER_EXISTS", "DB_ERROR"}
             /\ store' = store /\ ids' = ids]_vars

\* C9, its case: a registration with an owned email was answered USER_EXISTS.
C9_Witness ==
    \E r \in Slots :
        /\ req[r].pc = "done" /\ req[r].op = "register"
        /\ "owned" \in req[r].notes
        /\ req[r].resp = "USER_EXISTS"

\* C10: no two accounts that are not deleted share an email, and no two
\* share a phone.
C10_UniqueIdentity ==
    \A u, v \in UserIds :
        (/\ u # v
         /\ users[u].saved /\ ~users[u].isDeleted
         /\ users[v].saved /\ ~users[v].isDeleted)
        => users[u].email # users[v].email /\ users[u].phone # users[v].phone

\* C10, its case: two registrations passed the existence check together, one
\* was saved and answered 201, and the save of the other was refused though
\* no call to the store had failed.
C10_Witness ==
    \E r, s \in Slots :
        /\ r # s
        /\ req[r].pc = "done" /\ req[r].op = "register"
        /\ req[r].resp = "201"
        /\ req[s].pc = "done" /\ req[s].op = "register"
        /\ req[s].resp = "SAVE_USER_FAILED"
        /\ faults = 0

\* C11: a registration whose email is held by no account that is not deleted
\* but by a soft-deleted one is not answered USER_EXISTS.
C11_GhostEmailNotConflict ==
    \A r \in Slots :
        (req[r].op = "register" /\ "ghost" \in req[r].notes)
        => req[r].resp # "USER_EXISTS"

\* C13: when a delete has been answered 'Account deleted', the account is in
\* the store with isDeleted set.
C13_DeletedIsFlagged ==
    \A r \in Slots :
        (req[r].op = "delete" /\ req[r].pc = "done"
         /\ req[r].resp = "ACCOUNT_DELETED")
        => users[req[r].uid].saved /\ users[req[r].uid].isDeleted

\* C15: no step of a delete changes the Client collection.
C15_DeleteKeepsSessions ==
    [][\A r \in Slots :
          (req'[r] # req[r] /\ req'[r].op = "delete")
          => clients' = clients /\ nClients' = nClients]_vars

\* C15, its case: a delete was answered 'Account deleted' for an account
\* whose session is still in the store, not flagged.
C15_Witness ==
    \E r \in Slots, c \in ClientIds :
        /\ req[r].op = "delete" /\ req[r].pc = "done"
        /\ req[r].resp = "ACCOUNT_DELETED" /\ req[r].acted
        /\ users[req[r].uid].isDeleted
        /\ clients[c].present /\ ~clients[c].isDeleted
        /\ clients[c].user = req[r].uid

\* C12: an update whose body carries a key outside the allow-list is answered
\* by its first step, with FORBIDDEN_FIELDS naming exactly those keys unless
\* the session check or the read of the account fails first, and that step
\* leaves the store as it is; the step that answers an update with the
\* account writes every key of the body to that account, changes nothing
\* else of it and no other account, and a save that fails writes nothing.
C12_UpdateAllOrNothing ==
    [][\A r \in Slots :
          /\ (/\ req'[r] # req[r] /\ req'[r].op = "update"
              /\ req'[r].notes # {})
             => /\ req'[r].pc = "done"
                /\ store' = store
                /\ req'[r].resp \in {"FORBIDDEN_FIELDS", "UNAUTHORIZED",
                                     "NULL_USER", "NOT_VERIFIED",
                                     "FIND_USER_FAILED"}
                /\ req'[r].resp = "FORBIDDEN_FIELDS"
                      => req'[r].fields = req'[r].notes
          /\ (/\ req[r].op = "update" /\ req[r].pc = "save"
              /\ req'[r].pc = "done")
             => LET u == req[r].uid
                    b == req[r].upd
                IN  IF req'[r].resp = "200"
                    THEN /\ \A x \in b :
                               /\ x[1] = "firstName"
                                     => users'[u].firstName = x[2]
                               /\ x[1] = "password"
                                     => users'[u].password = x[2]
                         /\ "firstName" \notin KeysOf(b)
                               => users'[u].firstName = users[u].firstName
                         /\ "password" \notin KeysOf(b)
                               => users'[u].password = users[u].password
                         /\ [users'[u] EXCEPT !.firstName = 0, !.password = 0]
                            = [users[u] EXCEPT !.firstName = 0, !.password = 0]
                         /\ \A w \in UserIds \ {u} : users'[w] = users[w]
                         /\ clients' = clients /\ totps' = totps
                    ELSE store' = store]_vars

\* C12, its case: an update with two keys outside the allow-list was answered
\* FORBIDDEN_FIELDS with both, and an update with allowed keys was answered
\* with an account that holds a new first name.
C12_Witness ==
    \E r, s \in Slots :
        /\ req[r].op = "update" /\ req[r].pc = "done"
        /\ req[r].resp = "FORBIDDEN_FIELDS"
        /\ req[r].fields = {"email", "verifiedPhone"}
        /\ req[s].op = "update" /\ req[s].pc = "done"
        /\ req[s].resp = "200" /\ req[s].acted
        /\ users[req[s].uid].firstName # 0

\* C16: no step turns the verifiedPhone or the verifiedEmail of an account
\* from true to false.
C16_FlagsMonotonic ==
    [][\A u \in UserIds :
          /\ users[u].verifiedPhone => users'[u].verifiedPhone
          /\ users[u].verifiedEmail => users'[u].verifiedEmail]_vars

\* C16, its case: an update has written to an account whose phone and email
\* are verified, and they still are.
C16_Witness ==
    \E r \in Slots :
        /\ req[r].op = "update" /\ req[r].pc = "done"
        /\ req[r].resp = "200" /\ req[r].acted
        /\ users[req[r].uid].firstName # 0
        /\ users[req[r].uid].verifiedPhone
        /\ users[req[r].uid].verifiedEmail

\* C14: no step takes an account out of the store or clears its isDeleted; a
\* password login and a request of an OTP login whose email and phone name
\* soft-deleted accounts only are answered by their first step with NULL_USER
\* (or with the failure of the lookup) and change nothing; a fetch with a
\* session of a soft-deleted account is answered by its first step and
\* carries no account.
C14_DeletedIsGone ==
    [][/\ \A u \in UserIds :
             /\ users[u].saved => users'[u].saved
             /\ users[u].isDeleted => users'[u].isDeleted
       /\ \A r \in Slots :
             (req'[r] # req[r] /\ "deleted" \in req'[r].notes)
             => /\ req'[r].pc = "done"
                /\ store' = store /\ ids' = ids
                /\ req'[r].op \in {"login", "reqotp"}
                      => req'[r].resp \in {"NULL_USER", "FIND_USER_FAILED"}
                /\ req'[r].op = "fetch"
                      => req'[r].resp # "200" /\ req'[r].fields = {}]_vars

\* C14, its case: an account is stored and soft-deleted; a login that named
\* it was answered NULL_USER and a fetch with its session carried no account.
C14_Witness ==
    \E r, s \in Slots :
        /\ req[r].op \in {"login", "reqotp"} /\ req[r].pc = "done"
        /\ "deleted" \in req[r].notes /\ req[r].resp = "NULL_USER"
        /\ req[s].op = "fetch" /\ req[s].pc = "done"
        /\ "deleted" \in req[s].notes /\ req[s].resp = "NULL_USER"
        /\ \E u \in UserIds : users[u].saved /\ users[u].isDeleted

\* C18: no answer that carries an account (the fetch of the session's
\* account, the fetch by an administrator, the update) has the field password
\* or the field isDeleted.
C18_AccountViewsRedacted ==
    \A r \in Slots :
        (req[r].op \in {"fetch", "adminfetch", "update"}
         /\ req[r].resp = "200")
        => req[r].fields \cap {"password", "isDeleted"} = {}

C20_ConfirmScopedToAccount ==
    [][\A r \in Slots :
          (/\ req'[r] # req[r]
           /\ req'[r].op \in {"phone", "email"}
           /\ "foreign" \in req'[r].notes)
          => /\ req'[r].pc = "done"
             /\ store' = store /\ removing' = removing
             /\ req'[r].resp \in {"UNAVAILABLE_OTP", "UNAUTHORIZED",
                                  "NULL_USER", "NOT_VERIFIED",
                                  "FIND_USER_FAILED", "FIND_TOTP_FAILED"}]_vars

\* C20, its case: a confirm with the right code for a challenge of another
\* account was answered UNAVAILABLE_OTP, and the challenge is in the store.
C20_Witness ==
    \E r \in Slots, t \in TotpIds :
        /\ req[r].op \in {"phone", "email"} /\ req[r].pc = "done"
        /\ "foreign" \in req[r].notes /\ "wrong" \notin req[r].notes
        /\ req[r].resp = "UNAVAILABLE_OTP"
        /\ totps[t].present /\ removing = {}

\* The confirm flow that a request flow creates its challenge for.
Purpose(op) ==
    CASE op = "reqphone" -> "phone"
      [] op = "reqemail" -> "email"
      [] op = "reqotp" -> "otpsignin"
      [] OTHER -> "none"

\* C19: a confirm that names the challenge that a request flow of another
\* purpose has answered with does not succeed.
C19_PurposeBound ==
    \A r, s \in Slots :
        (/\ req[s].pc = "done" /\ req[s].resp = "200"
         /\ req[s].op \in {"reqphone", "reqemail", "reqotp"}
         /\ req[r].op \in ConfirmOps
         /\ req[r].rid = req[s].rid /\ req[r].rid # 0
         /\ Purpose(req[s].op) # req[r].op)
        => req[r].resp \notin Won

\* C21: the step that writes a verification flag and acknowledges writes it
\* to an account whose flag was not set.
C21_NoSecondVerification ==
    [][\A r \in Slots :
          (/\ req[r].op \in {"phone", "email"} /\ req[r].pc = "save"
           /\ req'[r].resp = "VERIFIED")
          => IF req[r].op = "phone"
             THEN ~users[req[r].uid].verifiedPhone
             ELSE ~users[req[r].uid].verifiedEmail]_vars

\* C22: the step of a request flow that ends with a failed delivery answers
\* OTP_SEND_FAILED without any field of the challenge and leaves the
\* challenge it has created in the store; a step that creates a challenge
\* and sees a call fail answers nothing else.
C22_SendFailureKeepsChallenge ==
    [][\A r \in Slots :
          (req[r].pc = "totp" /\ req'[r].pc = "done")
          => /\ req'[r].resp = "OTP_SEND_FAILED"
                => /\ req'[r].fields = {}
                   /\ nTotps' = nTotps + 1
                   /\ totps'[nTotps'].present
                   /\ totps'[nTotps'].user = req[r].uid
                   /\ \A t \in 1..nTotps : totps'[t] = totps[t]
                   /\ users' = users /\ clients' = clients
             /\ (nTotps' = nTotps + 1 /\ faults' = faults + 1)
                => req'[r].resp = "OTP_SEND_FAILED"]_vars

\* C22, its case: a request flow was answered OTP_SEND_FAILED and its
\* challenge is in the store.
C22_Witness ==
    \E r \in Slots :
        /\ req[r].op \in {"reqphone", "reqemail"} /\ req[r].pc = "done"
        /\ req[r].resp = "OTP_SEND_FAILED" /\ req[r].fields = {}
        /\ totps[req[r].rid].present
        /\ totps[req[r].rid].user = req[r].uid

\* C23: while no register, password login or OTP login request is under
\* way, every stored session is linked to exactly one saved account and every
\* session reference of an account names a stored session.
C23_LinkageWhole ==
    (\A r \in Slots : req[r].op \in {"register", "login", "otpsignin"}
                      => req[r].pc = "done")
    => /\ \A c \in ClientIds :
             clients[c].present
             => Cardinality({u \in OwnersOf(c) : users[u].saved}) = 1
       /\ \A u \in UserIds :
             users[u].saved
             => \A c \in Range(users[u].clients) :
                   c \in ClientIds /\ clients[c].present

\* C24: a step of a password login or of an OTP login leaves every stored
\* session other than the one its device-id names and the one the request
\* has created itself as it is, with its owner.
C24_LoginKeepsOtherSessions ==
    [][\A r \in Slots :
          (/\ req'[r] # req[r]
           /\ \/ req[r].op \in {"login", "otpsignin"} /\ req[r].pc # "done"
              \/ req[r].pc = "idle" /\ req'[r].op \in {"login", "otpsignin"})
          => \A c \in ClientIds :
                (clients[c].present /\ c # req'[r].dev /\ c # req[r].cid)
                => /\ clients'[c] = clients[c]
                   /\ OwnersOf(c)' = OwnersOf(c)]_vars

\* C24, its case: a login was answered with a new session while another
\* session of the same account is live.
C24_Witness ==
    \E r \in Slots :
        /\ req[r].op = "login" /\ req[r].pc = "done" /\ req[r].resp = "200"
        /\ \E c \in ClientIds :
              /\ c # req[r].cid /\ c # req[r].dev
              /\ Live(c) /\ Live(req[r].cid)
              /\ OwnersOf(c) = {req[r].uid}
              /\ OwnersOf(req[r].cid) = {req[r].uid}

\* C25: while a confirm of a phone or an email has not saved its flag yet,
\* its challenge is still in the store, unless the flag is set already.
C25_RemovedAfterPersisted ==
    \A r \in Slots :
        (req[r].op \in {"phone", "email"} /\ req[r].pc = "save")
        => \/ totps[req[r].rid].present
           \/ IF req[r].op = "phone"
              THEN users[req[r].uid].verifiedPhone
              ELSE users[req[r].uid].verifiedEmail

\* C26: the step that ends a removal of a challenge, done or failed, changes
\* no request, no account and no session, and a failed one changes nothing
\* in the store; the last step of a confirm whose own call does not fail
\* answers with the success result.
C26_CleanupBestEffort ==
    [][/\ removing' # removing /\ removing' \subseteq removing
          => /\ req' = req /\ users' = users /\ clients' = clients
             /\ faults' # faults => totps' = totps
       /\ \A r \in Slots :
             (/\ req[r].pc = "save" /\ req'[r] # req[r] /\ faults' = faults
              /\ req[r].op \in ConfirmOps)
             => /\ req'[r].pc = "done"
                /\ req'[r].resp = IF req[r].op = "otpsignin" THEN "200"
                                  ELSE "VERIFIED"]_vars

\* C26, its case: a confirm was answered with success, the removal of its
\* challenge has failed, and the flag it has set is stored.
C26_Witness ==
    \E r \in Slots :
        /\ req[r].op \in {"phone", "email"} /\ req[r].pc = "done"
        /\ req[r].resp = "VERIFIED" /\ req[r].acted
        /\ totps[req[r].rid].present /\ req[r].rid \notin removing
        /\ faults > 0
        /\ IF req[r].op = "phone" THEN users[req[r].uid].verifiedPhone
           ELSE users[req[r].uid].verifiedEmail

\* C27: a request one of whose calls has failed writes nothing afterwards
\* and is not answered with a success: it holds no session of its own and
\* its answer is an error.
C27_FirstFailureHalts ==
    \A r \in Slots :
        "failed" \in req[r].notes
        => /\ req[r].cid = 0
           /\ req[r].pc = "done" => req[r].resp # "200"

\* C28: a request of an OTP login that was answered with its challenge has
\* handed the code to a delivery service.
C28_IssuedIsDelivered ==
    \A r \in Slots :
        (req[r].op = "reqotp" /\ req[r].pc = "done" /\ req[r].resp = "200")
        => "sent" \in req[r].notes

\* C29: an OTP login that goes on after its first step holds the account its
\* challenge was issued for, keeps the challenge and never takes another
\* account, and the step that answers 200 has linked the new session to that
\* account and to no other.
C29_OtpSessionOfIssuedAccount ==
    [][\A r \in Slots :
          /\ (/\ req[r].pc = "idle" /\ req'[r].op = "otpsignin"
              /\ req'[r].pc # "done")
             => /\ totps[req'[r].rid].present
                /\ req'[r].uid = totps[req'[r].rid].user
          /\ (/\ req[r].op = "otpsignin" /\ req[r].pc \notin {"idle", "done"}
              /\ req'[r] # req[r])
             => /\ req'[r].pc # "done" => /\ req'[r].rid = req[r].rid
                                          /\ req'[r].uid \in {req[r].uid, 0}
                /\ (req'[r].pc = "done" /\ req'[r].resp = "200")
                   => /\ req'[r].uid = req[r].uid
                      /\ \E c \in ClientIds :
                            /\ c = req'[r].cid
                            /\ clients'[c].present
                            /\ ~clients[c].present \/ c = req[r].cid
                            /\ OwnersOf(c)' = {req[r].uid}]_vars

\* C29, its case: with two accounts in the store, an OTP login with a
\* challenge of the second one was answered with a session of the second
\* one.
C29_Witness ==
    \E r \in Slots :
        /\ req[r].op = "otpsignin" /\ req[r].pc = "done" /\ req[r].resp = "200"
        /\ req[r].uid = 2 /\ users[1].saved /\ users[2].saved
        /\ OwnersOf(req[r].cid) = {2}

\* C30: a password login for credentials that name no account, or name
\* accounts with another password, is answered by its first step, with
\* NULL_USER for the first and PASSWORD_INCORRECT for the second when no call
\* fails and PASSWORD_COMPARE_FAILED only when the check itself fails, and
\* that step leaves every account and every session as it was.
C30_FailedLoginNoEffect ==
    [][\A r \in Slots :
          (/\ req[r].pc = "idle" /\ req'[r].op = "login"
           /\ req'[r].notes \cap {"nobody", "badpw"} # {})
          => /\ req'[r].pc = "done"
             /\ req'[r].cid = 0 /\ req'[r].fields = {}
             /\ "nobody" \in req'[r].notes
                => req'[r].resp = IF faults' = faults THEN "NULL_USER"
                                  ELSE "FIND_USER_FAILED"
             /\ "badpw" \in req'[r].notes
                => /\ faults' = faults => req'[r].resp = "PASSWORD_INCORRECT"
                   /\ faults' # faults
                      => req'[r].resp \in {"PASSWORD_COMPARE_FAILED",
                                           "FIND_USER_FAILED"}
             /\ users' = users /\ clients' = clients
             /\ nUsers' = nUsers /\ nClients' = nClients]_vars

\* C30, its case: a login with the email of an account and another password
\* was answered PASSWORD_INCORRECT.
C30_Witness ==
    \E r \in Slots :
        /\ req[r].op = "login" /\ req[r].pc = "done"
        /\ "badpw" \in req[r].notes
        /\ req[r].resp = "PASSWORD_INCORRECT" /\ req[r].cid = 0

\* C31: every account whose email is verified has its phone verified.
C31_EmailImpliesPhone ==
    \A u \in UserIds :
        (users[u].saved /\ users[u].verifiedEmail) => users[u].verifiedPhone

\* C31, its case: a confirm of an email was acknowledged and has set the
\* flag of an account whose phone is verified.
C31_Witness ==
    \E r \in Slots :
        /\ req[r].op = "email" /\ req[r].pc = "done"
        /\ req[r].resp = "VERIFIED" /\ req[r].acted
        /\ users[req[r].uid].verifiedEmail
        /\ users[req[r].uid].verifiedPhone

\* C32: a step of a password login leaves every live session of another
\* account live.
C32_LoginSparesForeignSessions ==
    [][\A r \in Slots :
          (req[r].op = "login" /\ req[r].pc # "done" /\ req'[r] # req[r])
          => \A c \in ClientIds :
                (Live(c) /\ OwnersOf(c) # {} /\ req[r].uid \notin OwnersOf(c))
                => Live(c)']_vars

\* C33: the step of an OTP login that creates a session does so for an
\* account that is not deleted.
C33_NoSessionForDeleted ==
    [][\A r \in Slots :
          (/\ req[r].op = "otpsignin" /\ req'[r] # req[r]
           /\ nClients' = nClients + 1)
          => /\ req[r].uid \in UserIds
             /\ ~users[req[r].uid].isDeleted]_vars

\* C34: the step that answers a registration with an error leaves no account
\* of that registration in the store.
C34_FailedRegisterLeavesNoAccount ==
    [][\A r \in Slots :
          (/\ req'[r].op = "register" /\ req'[r].pc = "done"
           /\ req[r].pc # "done" /\ req'[r].resp # "201")
          => IF req[r].pc = "idle" THEN users' = users
             ELSE ~users'[req[r].uid].saved]_vars

\* A finished request q has loaded an account, changed it and saved it.
Saved(q) ==
    /\ q.pc = "done" /\ q.uid \in UserIds
    /\ \/ q.op \in {"login", "update"} /\ q.resp = "200"
       \/ q.op \in {"phone", "email"} /\ q.resp = "VERIFIED"

\* What q has written is in the stored account: the session of a login in
\* the list, the flag of a confirm, the values of an update.
WriteIn(q) ==
    IF q.op = "login"
    THEN design = "evolved" => q.cid \in Range(users[q.uid].clients)
    ELSE IF q.op = "phone" THEN users[q.uid].verifiedPhone
    ELSE IF q.op = "email" THEN users[q.uid].verifiedEmail
    ELSE Assign(users[q.uid], q.upd) = users[q.uid]

\* C35: the step that ends a request with a saved account has its write in
\* the store, and no step of another request takes the write of a finished
\* request out of the store, unless it is an update that writes a key of an
\* update before it.
C35_NoLostWrite ==
    [][\A s \in Slots :
          \E q \in {req'[s]} :
             Saved(q)
             => /\ req[s] # q => WriteIn(q)'
                /\ (req[s] = q /\ WriteIn(q))
                   => \/ WriteIn(q)'
                      \/ /\ q.op = "update"
                         /\ \E r \in Slots \ {s} :
                               /\ req[r].op = "update" /\ req[r].pc = "save"
                               /\ req'[r].pc = "done"
                               /\ KeysOf(req[r].upd) \cap KeysOf(q.upd) # {}]_vars

\* C35, its case: two logins of one account were under way at the same time
\* (the session created later is in the list before the one created first),
\* both were answered 200 and both sessions are in the list.
C35_Witness ==
    \E r, s \in Slots :
        /\ r # s /\ Saved(req[r]) /\ Saved(req[s])
        /\ req[r].op = "login" /\ req[s].op = "login"
        /\ req[r].uid = req[s].uid /\ req[r].cid < req[s].cid
        /\ \E i, k \in DOMAIN users[req[r].uid].clients :
              /\ i < k
              /\ users[req[r].uid].clients[i] = req[s].cid
              /\ users[req[r].uid].clients[k] = req[r].cid

\* C36: a step of an update leaves the email, the phone, both verification
\* flags, the deleted flag and the session list of its account as they were,
\* and with them every other account, every session and every challenge.
C36_UpdateFrame ==
    [][\A r \in Slots :
          (/\ req'[r] # req[r]
           /\ \/ req[r].op = "update" /\ req[r].pc # "done"
              \/ req[r].pc = "idle" /\ req'[r].op = "update")
          => /\ \A u \in UserIds :
                   /\ users'[u].saved = users[u].saved
                   /\ users'[u].email = users[u].email
                   /\ users'[u].phone = users[u].phone
                   /\ users'[u].verifiedPhone = users[u].verifiedPhone
                   /\ users'[u].verifiedEmail = users[u].verifiedEmail
                   /\ users'[u].isDeleted = users[u].isDeleted
                   /\ users'[u].clients = users[u].clients
                   /\ u # req[r].uid => users'[u] = users[u]
             /\ clients' = clients /\ totps' = totps
             /\ nUsers' = nUsers /\ nClients' = nClients
             /\ nTotps' = nTotps]_vars

\* C36, its case: an update of both allowed keys was written to an account
\* that still has its email, its phone, its verified phone and its session.
C36_Witness ==
    \E r \in Slots :
        /\ req[r].op = "update" /\ req[r].pc = "done"
        /\ req[r].resp = "200" /\ req[r].acted
        /\ KeysOf(req[r].upd) = {"firstName", "password"}
        /\ Assign(users[req[r].uid], req[r].upd) = users[req[r].uid]
        /\ users[req[r].uid].email = req[r].uid
        /\ users[req[r].uid].phone = req[r].uid
        /\ users[req[r].uid].verifiedPhone /\ ~users[req[r].uid].isDeleted
        /\ \E c \in ClientIds : Live(c) /\ OwnersOf(c) = {req[r].uid}

=============================================================================
